---- MODULE Spec2Model ----
(***************************************************************************)
(* The orchestration core of AGENTTA: SystemEvent construction, the        *)
(* MasterControlProgram (routing, concurrent fan-out, aggregation), the    *)
(* EventBus activity log and the SharedContextManager.                     *)
(*                                                                         *)
(* Python strings that the code builds by concatenation are sequences of   *)
(* tokens: "email_received" is <<"email_received">>, and                   *)
(* f"last_{event.type}" is <<"last_">> \o event.type.  The empty string is *)
(* << >>.                                                                  *)
(*                                                                         *)
(* process_event is a coroutine on one asyncio event loop: the code        *)
(* between two awaits runs as one step.  Its only await is the             *)
(* asyncio.gather of the workers, so one call is the step ProcessEvent     *)
(* (up to the await, or up to the no_agents return), one AgentProcess step *)
(* per worker, and the step ProcessEventResume (from the join to the       *)
(* return).                                                                *)
(***************************************************************************)
EXTENDS Integers, Sequences, FiniteSets, TLC

VARIABLES
    agents,         \* MasterControlProgram.agents: AgentType -> instance
    eventHistory,   \* MasterControlProgram._event_history
    eventLog,       \* EventBus._event_log
    subscribers,    \* EventBus._subscribers: topic -> list of callbacks
    delivered,      \* calls made to synchronous subscribers, in call order
    busTasks,       \* tasks created for asynchronous subscribers
    context,        \* SharedContextManager._context
    ctxHistory,     \* SharedContextManager._history
    clock,          \* the wall clock read by time.time()
    constructed,    \* SystemEvent objects a caller holds and has not dispatched
    lastConstruct,  \* how the latest SystemEvent(...) call ended
    calls,          \* the process_event calls made so far, in arrival order
    processLog,     \* the agent.process(event) calls made so far
    appended,       \* number of entries ever appended to each bounded log
    busCalls,       \* the publish and publish_async calls made on the bus directly
    registerLog,    \* the arguments of the callers' register_agent calls, in order
    lastCall,       \* the caller's latest query or store call and what it returned
    heap,           \* the mutable objects that store values refer to
    snapshot,       \* the mapping a caller holds from a get_all call
    fresh,          \* the _context of a second, initially empty store
    lock,           \* SharedContextManager._lock: its holder, or "free"
    threads,        \* the threads calling the store: where each one is
    shutdownRun,    \* the shutdown call in progress, if any
    delivery,       \* the publish loop in progress, if any
    wakeups         \* calls whose gather has resolved, in the order it resolved

vars == <<agents, eventHistory, eventLog, subscribers, delivered, busTasks,
          context, ctxHistory, clock, constructed, lastConstruct, calls,
          processLog, appended, busCalls, registerLog, lastCall, heap,
          snapshot, fresh, lock, threads, shutdownRun, delivery,
          wakeups>>

----------------------------------------------------------------------------
(* Bounds of the model *)

MaxEvents == 2
MaxOverflow == 2
MaxRegisterCalls == 3
MaxBusCalls == 2
MaxSubscriptionCalls == 4
MaxRecorded == 3
MaxThreadCalls == 2
MaxStoreCalls == 3
MaxLimit == 2
StartTime == 100

(* Program constants *)

McpMaxHistorySize == 1000
MaxLogSize == 10000
CtxMaxHistorySize == 1000
DefaultPriority == 5

----------------------------------------------------------------------------
(* AgentType and the routing table *)

AgentType == {"LA_SECRETARIA", "EL_CALENDISTA", "LA_ARCHIVISTA", "EL_ESTRATEGA"}

RoutingRules ==
    (<<"email_received">> :> <<"LA_SECRETARIA", "EL_CALENDISTA">>) @@
    (<<"document_uploaded">> :> <<"LA_ARCHIVISTA", "EL_ESTRATEGA">>) @@
    (<<"deadline_approaching">> :> <<"EL_CALENDISTA", "LA_SECRETARIA">>) @@
    (<<"document_analyzed">> :> <<"LA_ARCHIVISTA", "EL_ESTRATEGA">>) @@
    (<<"pattern_detected">> :> <<"EL_ESTRATEGA">>) @@
    (<<"calendar_event_created">> :> <<"EL_CALENDISTA">>) @@
    (<<"search_query">> :> <<"LA_ARCHIVISTA">>)

(* Worker instances: an object has a class and an identity of its own.     *)
(* NoAgent stands for "no entry in self.agents".                           *)
NoAgent == [cls |-> "NoneType", oid |-> 0]

(* register_agent takes any object: LegacyInstance is one whose process is *)
(* a plain function that raises when it is called.                         *)
LegacyInstance == [cls |-> "LegacyAgent", oid |-> 4]

AgentInstances ==
    { [cls |-> "LaSecretaria", oid |-> 1],
      [cls |-> "ElCalendista", oid |-> 2],
      [cls |-> "LaSecretaria", oid |-> 3],
      LegacyInstance }

(* Event kinds the callers of the model dispatch: two routed kinds (both   *)
(* routed to LA_SECRETARIA and EL_CALENDISTA, in opposite orders) and one  *)
(* kind without a routing-table entry.                                     *)
KindInputs == { <<"email_received">>, <<"calendar_event_created">>, <<"ping">> }

(* The register_agent calls the callers of the model make: EL_CALENDISTA   *)
(* is registered with an ElCalendista or with a second LaSecretaria.       *)
RegisterInputs ==
    { <<"LA_SECRETARIA", [cls |-> "LaSecretaria", oid |-> 1]>>,
      <<"EL_CALENDISTA", [cls |-> "ElCalendista", oid |-> 2]>>,
      <<"EL_CALENDISTA", [cls |-> "LaSecretaria", oid |-> 3]>> }

----------------------------------------------------------------------------
(* Generic Python pieces *)

(* lst[-n:]: the last n items for n > 0 (the whole list when it is         *)
(* shorter); lst[0:], the whole list, for n = 0; lst[|n|:] for n < 0.      *)
LastN(lst, n) ==
    IF n = 0 THEN lst
    ELSE IF n < 0 THEN SubSeq(lst, 1 - n, Len(lst))
    ELSE IF Len(lst) > n THEN SubSeq(lst, Len(lst) - n + 1, Len(lst)) ELSE lst

(* Variant: the dict is replaced by new_data instead of merged *)
DictReplace(d, new_data) == new_data

(* Variant: keys already present keep their value *)
DictSetDefault(d, new_data) ==
    [k \in DOMAIN d \cup DOMAIN new_data |->
        IF k \in DOMAIN d THEN d[k] ELSE new_data[k]]

(* dict.update: the keys of new_data are added or overwritten *)
DictUpdate(d, new_data) ==
    [k \in (DOMAIN d) \cup (DOMAIN new_data) |->
        IF k \in DOMAIN new_data THEN new_data[k] ELSE d[k]]

EmptyDict == [k \in {} |-> 0]

(* The callers' side before any call *)
NoCall == [op |-> "none", seq |-> 0]
NoSnapshot == [taken |-> FALSE]

(* The threads that use the store, and a thread outside any call *)
Threads == {"t1", "t2"}
Idle == [pc |-> "idle"]

(* No shutdown, or no publish loop, has been started *)
NoRun == [pc |-> "none"]

----------------------------------------------------------------------------
(* SystemEvent *)

(* A payload is an object that is a dict or not; n tells payloads apart.   *)
DictPayload(n) == [isdict |-> TRUE, n |-> n]
OtherPayload(n) == [isdict |-> FALSE, n |-> n]

SystemEventFields(type, payload, timestamp, priority) ==
    [type |-> type, payload |-> payload, timestamp |-> timestamp,
     agent_origin |-> "None", priority |-> priority]

(* Variant: the priority check has no upper bound *)
PostInitNoUpperBound(e) ==
    IF e.type = << >> THEN "Event type cannot be empty"
    ELSE IF ~e.payload.isdict THEN "Event payload must be a dictionary"
    ELSE IF ~(1 <= e.priority) THEN "Priority must be between 1 and 10"
    ELSE "ok"

(* SystemEvent.__post_init__: the ValueError it raises, or "ok" *)
PostInit(e) ==
    IF e.type = << >> THEN "Event type cannot be empty"
    ELSE IF ~e.payload.isdict THEN "Event payload must be a dictionary"
    ELSE IF ~(1 <= e.priority /\ e.priority <= 10)
         THEN "Priority must be between 1 and 10"
    ELSE "ok"

(* SystemEvent(type=..., payload=..., priority=...): timestamp defaults to *)
(* time.time(); the object exists for the caller only if __post_init__     *)
(* returns.                                                                *)
NewSystemEvent(type, payload, priority) ==
    /\ clock - StartTime < MaxEvents
    /\ LET e == SystemEventFields(type, payload, clock, priority)
           r == PostInit(e)
       IN  /\ constructed' = IF r = "ok" THEN constructed \cup {e} ELSE constructed
           /\ lastConstruct' = [type |-> type, payload |-> payload,
                                priority |-> priority, result |-> r]
    /\ clock' = clock + 1
    /\ UNCHANGED <<shutdownRun, delivery, wakeups, lastCall, heap, snapshot, fresh, lock, threads, busCalls, registerLog, agents, eventHistory, eventLog, subscribers, delivered,
                   busTasks, context, ctxHistory, calls, processLog, appended>>

----------------------------------------------------------------------------
(* EventBus *)

(* What publish is given: process_event publishes the SystemEvent object.  *)
EventObject(e) == [pytype |-> "SystemEvent", has_dict |-> TRUE, size |-> 0, value |-> e]

SummarizePayload(payload) ==
    IF payload.has_dict THEN <<payload.pytype, " object">>
    ELSE IF payload.pytype = "dict" THEN <<"Dict with ", payload.size, " keys">>
    ELSE IF payload.pytype \in {"list", "tuple"}
         THEN <<payload.pytype, " with ", payload.size, " items">>
    ELSE <<payload.pytype>>

(* EventBus._log_event *)
(* Variant: the entry names the type of the payload instead of the topic *)
LogEventByPayloadType(log, now, event_type, payload) ==
    LET log_entry == [timestamp |-> now, event_type |-> <<payload.pytype>>,
                      payload_summary |-> SummarizePayload(payload)]
        grown == Append(log, log_entry)
    IN  IF Len(grown) > MaxLogSize THEN LastN(grown, MaxLogSize) ELSE grown

LogEvent(log, now, event_type, payload) ==
    LET log_entry == [timestamp |-> now, event_type |-> event_type,
                      payload_summary |-> SummarizePayload(payload)]
        grown == Append(log, log_entry)
    IN  IF Len(grown) > MaxLogSize THEN LastN(grown, MaxLogSize) ELSE grown

(* self._subscribers.get(event_type, []) *)
SubscribersOf(subs, event_type) ==
    IF event_type \in DOMAIN subs THEN subs[event_type] ELSE << >>

(* The subscriber loop of publish: a synchronous callback is called        *)
(* inline (an exception it raises is caught and printed), a coroutine      *)
(* function gets a task created for it that nobody awaits.                 *)
(* Variant: an exception of a subscriber leaves the loop *)
SyncCallsUntilRaise(subs, event_type, payload) ==
    LET l == SubscribersOf(subs, event_type)
        failing == { i \in DOMAIN l : ~l[i].is_async /\ l[i].raises }
        last == IF failing = {} THEN Len(l)
                ELSE CHOOSE i \in failing : \A j \in failing : i <= j
        s == SelectSeq(SubSeq(l, 1, last), LAMBDA h : ~h.is_async)
    IN  [i \in 1..Len(s) |-> [callback |-> s[i], payload |-> payload]]

(* Variant: coroutine subscribers are run to the end inside the loop too *)
SyncCallsAwaitingAsync(subs, event_type, payload) ==
    LET l == SubscribersOf(subs, event_type)
    IN  [i \in 1..Len(l) |-> [callback |-> l[i], payload |-> payload]]

SyncCalls(subs, event_type, payload) ==
    LET l == SubscribersOf(subs, event_type)
        s == SelectSeq(l, LAMBDA h : ~h.is_async)
    IN  [i \in 1..Len(s) |-> [callback |-> s[i], payload |-> payload]]

AsyncTasks(subs, event_type, payload) ==
    LET l == SubscribersOf(subs, event_type)
        a == SelectSeq(l, LAMBDA h : h.is_async)
    IN  [i \in 1..Len(a) |-> [callback |-> a[i], payload |-> payload, state |-> "pending"]]

----------------------------------------------------------------------------
(* SharedContextManager *)

(* SharedContextManager._add_to_history *)
CtxAddToHistory(history, log_entry) ==
    LET grown == Append(history, log_entry)
    IN  IF Len(grown) > CtxMaxHistorySize THEN LastN(grown, CtxMaxHistorySize) ELSE grown

(* SharedContextManager._log_update, called with the context already merged *)
LogUpdateEntry(now, new_keys, old_keys, merged) ==
    [timestamp |-> now, action |-> "update",
     added_keys |-> new_keys \ old_keys,
     updated_keys |-> new_keys \cap old_keys,
     total_keys |-> Cardinality(DOMAIN merged)]

(* SharedContextManager.update, both the merge and the logging done under  *)
(* the lock: [context, history] after the call.                            *)
ContextUpdate(ctx, history, now, new_data) ==
    LET old_keys == DOMAIN ctx
        merged == DictUpdate(ctx, new_data)
    IN  [context |-> merged,
         history |-> CtxAddToHistory(history,
                        LogUpdateEntry(now, DOMAIN new_data, old_keys, merged))]

----------------------------------------------------------------------------
(* MasterControlProgram *)

(* Variant: the history is appended to and never trimmed *)
McpAppendUntrimmed(history, event) == Append(history, event)

(* MasterControlProgram._add_to_history *)
McpAddToHistory(history, event) ==
    LET grown == Append(history, event)
    IN  IF Len(grown) > McpMaxHistorySize THEN LastN(grown, McpMaxHistorySize) ELSE grown

(* Variant: no check that the routed identity is registered *)
IsRegisteredUnchecked(registry, agent_type) == TRUE

(* agent_type in self.agents *)
IsRegistered(registry, agent_type) == registry[agent_type] # NoAgent

(* Variant: only the first routed and registered identity is kept *)
DetermineFirstRelevantAgent(registry, event) ==
    LET agent_types == IF event.type \in DOMAIN RoutingRules
                       THEN RoutingRules[event.type] ELSE << >>
        kept == SelectSeq(agent_types, LAMBDA t : registry[t] # NoAgent)
    IN  [i \in 1..(IF Len(kept) > 0 THEN 1 ELSE 0) |-> registry[kept[i]]]

(* MasterControlProgram._determine_relevant_agents: the instances          *)
(* registered for the routed identities, in routing order.                 *)
DetermineRelevantAgents(registry, event) ==
    LET agent_types == IF event.type \in DOMAIN RoutingRules
                       THEN RoutingRules[event.type] ELSE << >>
        kept == SelectSeq(agent_types, LAMBDA t : IsRegistered(registry, t))
    IN  [i \in 1..Len(kept) |-> registry[kept[i]]]

(* What asyncio.gather with return_exceptions=True collects per worker:   *)
(* nothing yet, the dict process() returned, or the exception it raised.   *)
Pending == [pending |-> TRUE]
Returned(agent, event) ==
    [status |-> "processed", agent |-> agent.oid, echo |-> event.payload]
Raised(agent, event) ==
    [exception |-> "Exception", args |-> <<"failed", agent.oid, event.payload.n>>]

IsPending(r) == "pending" \in DOMAIN r
IsException(r) == "exception" \in DOMAIN r

(* Variant: gather without return_exceptions resumes at the first raise *)
GatherFirstException(results) ==
    \/ \A i \in DOMAIN results : "pending" \notin DOMAIN results[i]
    \/ \E i \in DOMAIN results : "exception" \in DOMAIN results[i]

(* Variant: the wait resumes as soon as one awaitable has finished *)
GatherFirstCompleted(results) ==
    \E i \in DOMAIN results : "pending" \notin DOMAIN results[i]

(* The await of asyncio.gather with return_exceptions=True resumes     *)
(* when every awaitable has finished, whether it returned or raised.       *)
GatherDone(results) == \A i \in DOMAIN results : ~IsPending(results[i])

(* type(agent).__name__ *)
AgentName(agent) == agent.cls

(* One entry of the aggregated mapping *)
ResultEntry(result) ==
    IF IsException(result)
    THEN [status |-> "error", error |-> result.args]
    ELSE result

(* MasterControlProgram._process_agent_results: the loop assigns           *)
(* processed[agent_name] for each (agent, result) pair in list order, so   *)
(* the last pair with a given name is the one that stays.                  *)
ProcessAgentResults(relevant, results) ==
    LET names == { AgentName(relevant[i]) : i \in DOMAIN relevant }
        last(name) == CHOOSE i \in DOMAIN relevant :
                         /\ AgentName(relevant[i]) = name
                         /\ \A j \in DOMAIN relevant :
                               AgentName(relevant[j]) = name => j <= i
    IN  [name \in names |-> ResultEntry(results[last(name)])]

(* Variant: the key is built without the event type *)
LastKeyWithoutType(event_type) == <<"last_">>

(* f"last_{event.type}" *)
LastKey(event_type) == <<"last_">> \o event_type

(* The dict process_event merges into the shared context *)
Summary(event, processed_results) ==
    (LastKey(event.type) :>
        [timestamp |-> event.timestamp, results |-> processed_results])

NoOutcome == [status |-> "running"]

(* Variant: an identity that is already registered keeps its worker *)
RegisterAgentKeepFirst(agent_type, agent_instance) ==
    /\ agent_type \in AgentType
    /\ agent_instance \in AgentInstances
    /\ agents' = IF agents[agent_type] # NoAgent THEN agents
                 ELSE [agents EXCEPT ![agent_type] = agent_instance]
    /\ UNCHANGED <<shutdownRun, delivery, wakeups, lastCall, heap, snapshot, fresh, lock, threads, busCalls, eventHistory, eventLog, subscribers, delivered, busTasks,
                   context, ctxHistory, clock, constructed, lastConstruct,
                   calls, processLog, appended>>

(* MasterControlProgram.register_agent *)
RegisterAgent(agent_type, agent_instance) ==
    /\ agent_type \in AgentType
    /\ agent_instance \in AgentInstances
    /\ agents' = [agents EXCEPT ![agent_type] = agent_instance]
    /\ UNCHANGED <<shutdownRun, delivery, wakeups, lastCall, heap, snapshot, fresh, lock, threads, busCalls, eventHistory, eventLog, subscribers, delivered, busTasks,
                   context, ctxHistory, clock, constructed, lastConstruct,
                   calls, processLog, appended>>

(* process_event from its first line to the await of gather, or to the     *)
(* no_agents return.                                                       *)
ProcessEvent(event) ==
    /\ event \in constructed
    /\ constructed' = constructed \ {event}
    /\ eventHistory' = McpAddToHistory(eventHistory, event)
    /\ eventLog' = LogEvent(eventLog, clock, event.type, EventObject(event))
    /\ delivered' = delivered \o SyncCalls(subscribers, event.type, EventObject(event))
    /\ busTasks' = busTasks \o AsyncTasks(subscribers, event.type, EventObject(event))
    /\ appended' = [appended EXCEPT !.mcp = @ + 1, !.bus = @ + 1]
    /\ LET relevant_agents == DetermineRelevantAgents(agents, event)
       IN  IF relevant_agents = << >>
           THEN /\ calls' = Append(calls,
                        [event |-> event, relevant |-> relevant_agents,
                         results |-> << >>, pc |-> "returned",
                         outcome |-> [status |-> "no_agents",
                                      message |-> <<"No agents configured for event type: ">>
                                                     \o event.type,
                                      event |-> event.type]])
                /\ processLog' = processLog
           ELSE /\ calls' = Append(calls,
                        [event |-> event, relevant |-> relevant_agents,
                         results |-> [i \in DOMAIN relevant_agents |-> Pending],
                         pc |-> "gather", outcome |-> NoOutcome])
                /\ processLog' = processLog \o
                        [i \in DOMAIN relevant_agents |->
                            [agent |-> relevant_agents[i], event |-> event,
                             call |-> Len(calls) + 1]]
    /\ UNCHANGED <<shutdownRun, delivery, wakeups, lastCall, heap, snapshot, fresh, lock, threads, busCalls, registerLog, agents, subscribers, context, ctxHistory, clock, lastConstruct>>

(* The worker that produced a collected result *)
Producer(r) == IF IsException(r) THEN r.args[2] ELSE r.agent

(* Worker i of the call has finished: gather holds what it produced *)
Finished(call, i) ==
    \E j \in DOMAIN call.results :
        /\ ~IsPending(call.results[j])
        /\ Producer(call.results[j]) = call.relevant[i].oid

(* Variant: results are collected in the order the awaitables finish *)
StoreResultInCompletionOrder(results, i, r) ==
    LET free == { j \in DOMAIN results : "pending" \in DOMAIN results[j] }
        slot == CHOOSE j \in free : \A k \in free : j <= k
    IN  [results EXCEPT ![slot] = r]

(* asyncio.gather returns the results in the order of the awaitables it    *)
(* was given: the result of the i-th awaitable is the i-th element.        *)
StoreResult(results, i, r) == [results EXCEPT ![i] = r]

(* Variant: a worker that raises is invoked again for the same event *)
AgentProcessWithRetry(c, i, raises) ==
    /\ c \in DOMAIN calls
    /\ calls[c].pc = "gather"
    /\ i \in DOMAIN calls[c].results
    /\ ~Finished(calls[c], i)
    /\ IF raises
       THEN /\ processLog' = Append(processLog,
                   [agent |-> calls[c].relevant[i], event |-> calls[c].event,
                    call |-> c])
            /\ calls' = calls
       ELSE /\ processLog' = processLog
            /\ calls' = [calls EXCEPT ![c].results =
                   StoreResult(@, i, Returned(calls[c].relevant[i], calls[c].event))]
    /\ UNCHANGED <<shutdownRun, delivery, wakeups, lastCall, heap, snapshot, fresh, lock, threads, busCalls, registerLog, agents, eventHistory, eventLog, subscribers, delivered,
                   busTasks, context, ctxHistory, clock, constructed,
                   lastConstruct, appended>>

(* One worker's process(event) finishes: it returns its dict or raises.    *)
AgentProcess(c, i, raises) ==
    /\ c \in DOMAIN calls
    /\ calls[c].pc = "gather"
    /\ i \in DOMAIN calls[c].results
    /\ ~Finished(calls[c], i)
    /\ calls' = [calls EXCEPT ![c].results =
                    StoreResult(@, i,
                        IF raises THEN Raised(calls[c].relevant[i], calls[c].event)
                        ELSE Returned(calls[c].relevant[i], calls[c].event))]
    /\ UNCHANGED <<shutdownRun, delivery, wakeups, lastCall, heap, snapshot, fresh, lock, threads, busCalls, registerLog, agents, eventHistory, eventLog, subscribers, delivered,
                   busTasks, context, ctxHistory, clock, constructed,
                   lastConstruct, processLog, appended>>

(* Variant: the workers are looked up again when gather has returned *)
ProcessEventResumeLookupAgain(c) ==
    /\ c \in DOMAIN calls
    /\ calls[c].pc = "gather"
    /\ GatherDone(calls[c].results)
    /\ LET event == calls[c].event
           processed_results == ProcessAgentResults(calls[c].relevant, calls[c].results)
           after == ContextUpdate(context, ctxHistory, clock,
                                  Summary(event, processed_results))
       IN  /\ context' = after.context
           /\ ctxHistory' = after.history
           /\ calls' = [calls EXCEPT ![c].pc = "returned",
                           ![c].outcome =
                               [status |-> "success", event |-> event.type,
                                agents_processed |->
                                    Len(DetermineRelevantAgents(agents, event)),
                                results |-> processed_results]]
    /\ appended' = [appended EXCEPT !.ctx = @ + 1]
    /\ UNCHANGED <<shutdownRun, delivery, wakeups, lastCall, heap, snapshot, fresh, lock, threads, busCalls, registerLog, agents, eventHistory, eventLog, subscribers, delivered,
                   busTasks, clock, constructed, lastConstruct, processLog>>

(* process_event from the return of gather to its return statement *)
ProcessEventResume(c) ==
    /\ c \in DOMAIN calls
    /\ calls[c].pc = "gather"
    /\ GatherDone(calls[c].results)
    /\ LET event == calls[c].event
           processed_results == ProcessAgentResults(calls[c].relevant, calls[c].results)
           after == ContextUpdate(context, ctxHistory, clock,
                                  Summary(event, processed_results))
       IN  /\ context' = after.context
           /\ ctxHistory' = after.history
           /\ calls' = [calls EXCEPT ![c].pc = "returned",
                           ![c].outcome =
                               [status |-> "success", event |-> event.type,
                                agents_processed |-> Len(calls[c].relevant),
                                results |-> processed_results]]
    /\ appended' = [appended EXCEPT !.ctx = @ + 1]
    /\ UNCHANGED <<shutdownRun, delivery, wakeups, lastCall, heap, snapshot, fresh, lock, threads, busCalls, registerLog, agents, eventHistory, eventLog, subscribers, delivered,
                   busTasks, clock, constructed, lastConstruct, processLog>>

----------------------------------------------------------------------------
(* The orchestrator under concurrent callers *)

Init ==
    /\ agents = [t \in AgentType |-> NoAgent]
    /\ eventHistory = << >>
    /\ eventLog = << >>
    /\ subscribers = EmptyDict
    /\ delivered = << >>
    /\ busTasks = << >>
    /\ context = EmptyDict
    /\ ctxHistory = << >>
    /\ clock = StartTime
    /\ constructed = {}
    /\ lastConstruct = [result |-> "none"]
    /\ calls = << >>
    /\ processLog = << >>
    /\ appended = [mcp |-> 0, bus |-> 0, ctx |-> 0]
    /\ busCalls = << >>
    /\ registerLog = << >>
    /\ lastCall = NoCall
    /\ heap = EmptyDict
    /\ snapshot = NoSnapshot
    /\ fresh = EmptyDict
    /\ lock = "free"
    /\ threads = [t \in Threads |-> Idle]
    /\ shutdownRun = NoRun
    /\ delivery = NoRun
    /\ wakeups = << >>

(* A caller constructs an event and dispatches it before it constructs the *)
(* next one; dispatches overlap at their joins.                            *)
Next ==
    \/ \E r \in RegisterInputs :
          RegisterAgent(r[1], r[2]) /\ UNCHANGED registerLog
    \/ \E k \in KindInputs :
          /\ constructed = {}
          /\ NewSystemEvent(k, DictPayload(clock - StartTime + 1), DefaultPriority)
    \/ \E e \in constructed : ProcessEvent(e)
    \/ \E c \in DOMAIN calls, i \in 1..2, raises \in BOOLEAN : AgentProcess(c, i, raises)
    \/ \E c \in DOMAIN calls : ProcessEventResume(c)

Spec == Init /\ [][Next]_vars

----------------------------------------------------------------------------
(* SystemEvent construction on arbitrary arguments *)

TypeInputs == KindInputs \cup { << >> }
PayloadInputs(n) == { DictPayload(n), OtherPayload(n) }
PriorityInputs == 0..11

NextEvent ==
    \/ \E t \in TypeInputs, p \in PayloadInputs(clock - StartTime + 1),
          pr \in PriorityInputs :
          /\ constructed = {}
          /\ NewSystemEvent(t, p, pr)
    \/ \E e \in constructed : ProcessEvent(e)

SpecEvent == Init /\ [][NextEvent]_vars

----------------------------------------------------------------------------
(* The three bounded logs under a long run of appends.  The i-th entry     *)
(* appended to a log carries i as its timestamp.  A run starts with logs   *)
(* that have been appended to almost up to their capacity.                 *)

HistoryEvent(i) ==
    SystemEventFields(<<"ping">>, DictPayload(i), i, DefaultPriority)

BusLogEntry(i) ==
    LogEvent(<< >>, i, <<"ping">>, EventObject(HistoryEvent(i)))[1]

SetLogEntry(i) ==
    [timestamp |-> i, action |-> "set", key |-> <<"k">>, had_previous_value |-> i > 1]

PrefilledEventHistory(n) == SubSeq([i \in 1..n |-> HistoryEvent(i)], 1, n)
PrefilledEventLog(n) == SubSeq([i \in 1..n |-> BusLogEntry(i)], 1, n)
PrefilledCtxHistory(n) == SubSeq([i \in 1..n |-> SetLogEntry(i)], 1, n)

InitLog ==
    /\ agents = [t \in AgentType |-> NoAgent]
    /\ subscribers = EmptyDict
    /\ delivered = << >>
    /\ busTasks = << >>
    /\ context = EmptyDict
    /\ clock = StartTime
    /\ constructed = {}
    /\ lastConstruct = [result |-> "none"]
    /\ calls = << >>
    /\ processLog = << >>
    /\ busCalls = << >>
    /\ registerLog = << >>
    /\ lastCall = NoCall
    /\ heap = EmptyDict
    /\ snapshot = NoSnapshot
    /\ fresh = EmptyDict
    /\ lock = "free"
    /\ threads = [t \in Threads |-> Idle]
    /\ shutdownRun = NoRun
    /\ delivery = NoRun
    /\ wakeups = << >>
    /\ \E m \in {McpMaxHistorySize - 2, McpMaxHistorySize - 1},
          b \in {MaxLogSize - 2, MaxLogSize - 1},
          c \in {CtxMaxHistorySize - 2, CtxMaxHistorySize - 1} :
          /\ appended = [mcp |-> m, bus |-> b, ctx |-> c]
          /\ eventHistory = PrefilledEventHistory(m)
          /\ eventLog = PrefilledEventLog(b)
          /\ ctxHistory = PrefilledCtxHistory(c)

(* MasterControlProgram._add_to_history(event) *)
AppendEventHistory ==
    /\ appended.mcp < McpMaxHistorySize + MaxOverflow
    /\ eventHistory' = McpAddToHistory(eventHistory, HistoryEvent(appended.mcp + 1))
    /\ appended' = [appended EXCEPT !.mcp = @ + 1]
    /\ UNCHANGED <<shutdownRun, delivery, wakeups, lastCall, heap, snapshot, fresh, lock, threads, busCalls, registerLog, agents, eventLog, subscribers, delivered, busTasks, context,
                   ctxHistory, clock, constructed, lastConstruct, calls, processLog>>

(* EventBus._log_event(event_type, payload) *)
AppendEventLog ==
    /\ appended.bus < MaxLogSize + MaxOverflow
    /\ eventLog' = LogEvent(eventLog, appended.bus + 1, <<"ping">>,
                            EventObject(HistoryEvent(appended.bus + 1)))
    /\ appended' = [appended EXCEPT !.bus = @ + 1]
    /\ UNCHANGED <<shutdownRun, delivery, wakeups, lastCall, heap, snapshot, fresh, lock, threads, busCalls, registerLog, agents, eventHistory, subscribers, delivered, busTasks, context,
                   ctxHistory, clock, constructed, lastConstruct, calls, processLog>>

(* SharedContextManager._add_to_history(log_entry) *)
AppendCtxHistory ==
    /\ appended.ctx < CtxMaxHistorySize + MaxOverflow
    /\ ctxHistory' = CtxAddToHistory(ctxHistory, SetLogEntry(appended.ctx + 1))
    /\ appended' = [appended EXCEPT !.ctx = @ + 1]
    /\ UNCHANGED <<shutdownRun, delivery, wakeups, lastCall, heap, snapshot, fresh, lock, threads, busCalls, registerLog, agents, eventHistory, eventLog, subscribers, delivered, busTasks,
                   context, clock, constructed, lastConstruct, calls, processLog>>

NextLog == AppendEventHistory \/ AppendEventLog \/ AppendCtxHistory

SpecLog == InitLog /\ [][NextLog]_vars

----------------------------------------------------------------------------
(* Properties of dispatch (process_event) *)

HasReturned(c) == calls[c].pc = "returned"
Succeeded(c) == HasReturned(c) /\ calls[c].outcome.status = "success"
Dispatched(c) == calls[c].relevant # << >>

(* The identities the routing table lists for a kind *)
RoutedTypes(event_type) ==
    IF event_type \in DOMAIN RoutingRules
    THEN { RoutingRules[event_type][i] : i \in DOMAIN RoutingRules[event_type] }
    ELSE {}

(* What the caller is owed for worker i of call c: the worker's dict, or   *)
(* the structured error entry naming its failure.                          *)
OwedEntry(c, i) ==
    LET r == calls[c].results[i]
    IN  IF "exception" \in DOMAIN r
        THEN [status |-> "error", error |-> r.args]
        ELSE r

(* C1: a dispatch whose workers have all finished, any of them by raising, *)
(* returns 'success' and its aggregated result holds, for every resolved   *)
(* worker, that worker's entry: the error entry of a worker that raised,   *)
(* the real result of one that returned.                                   *)
C1_EveryWorkerHasItsEntry ==
    \A c \in DOMAIN calls :
        (HasReturned(c) /\ Dispatched(c)) =>
            /\ calls[c].outcome.status = "success"
            /\ \A i \in DOMAIN calls[c].relevant :
                  \E name \in DOMAIN calls[c].outcome.results :
                      calls[c].outcome.results[name] = OwedEntry(c, i)

(* C2: a dispatch of a kind without a routing entry, or whose routed       *)
(* identities are all unregistered, returns 'no_agents' naming the kind,   *)
(* calls no worker and leaves the context and its history as they were.    *)
C2_NoAgentsLeavesContext ==
    [][ \A e \in constructed :
          ( /\ Len(calls') = Len(calls) + 1
            /\ calls'[Len(calls')].event = e
            /\ \A t \in RoutedTypes(e.type) : agents[t] = NoAgent )
          => /\ calls'[Len(calls')].pc = "returned"
             /\ calls'[Len(calls')].outcome.status = "no_agents"
             /\ calls'[Len(calls')].outcome.event = e.type
             /\ processLog' = processLog
             /\ context' = context
             /\ ctxHistory' = ctxHistory ]_vars

(* A 'no_agents' dispatch of a routed kind made after the context had been *)
(* written, the written summary still in place.                            *)
C2_Witness ==
    \E c \in DOMAIN calls :
        /\ calls[c].outcome.status = "no_agents"
        /\ calls[c].event.type \in DOMAIN RoutingRules
        /\ Len(ctxHistory) = 1
        /\ ctxHistory[1].timestamp <= calls[c].event.timestamp
        /\ DOMAIN context # {}

(* C3: after a successful dispatch the aggregated result has exactly one   *)
(* entry per resolved worker: as many entries as agents_processed.         *)
C3_OneEntryPerWorker ==
    \A c \in DOMAIN calls :
        Succeeded(c) =>
            Cardinality(DOMAIN calls[c].outcome.results)
                = calls[c].outcome.agents_processed

OwnSummary(c) ==
    [timestamp |-> calls[c].event.timestamp, results |-> calls[c].outcome.results]

(* Every entry of an aggregated result comes from the event of call c *)
EntriesFromOwnEvent(c, results) ==
    \A name \in DOMAIN results :
        IF results[name].status = "error"
        THEN results[name].error[3] = calls[c].event.payload.n
        ELSE results[name].echo = calls[c].event.payload

(* C5: two dispatches of different kinds, run concurrently in any          *)
(* interleaving and both completed, leave both 'last_<kind>' keys in the   *)
(* context, each with the timestamp and the aggregated results of its own  *)
(* event.  (A later successful dispatch of the same kind replaces a        *)
(* summary, so the two are the only successful calls of their kinds.)      *)
C5_BothSummariesKept ==
    \A c1, c2 \in DOMAIN calls :
        ( /\ Succeeded(c1) /\ Succeeded(c2)
          /\ calls[c1].event.type # calls[c2].event.type
          /\ \A c3 \in DOMAIN calls \ {c1, c2} :
                calls[c3].relevant = << >>
                \/ calls[c3].event.type \notin {calls[c1].event.type, calls[c2].event.type} )
        => \A c \in {c1, c2} :
              /\ LastKey(calls[c].event.type) \in DOMAIN context
              /\ context[LastKey(calls[c].event.type)] = OwnSummary(c)
              /\ EntriesFromOwnEvent(c, context[LastKey(calls[c].event.type)].results)

(* Two dispatches of different kinds, both completed, the first to arrive  *)
(* being the last to write its summary: it was suspended at its join while *)
(* the other ran from start to end.                                        *)
C5_Witness ==
    /\ Len(calls) = 2
    /\ Succeeded(1) /\ Succeeded(2)
    /\ calls[1].event.type # calls[2].event.type
    /\ Len(ctxHistory) = 2
    /\ ctxHistory[1].added_keys = {LastKey(calls[2].event.type)}
    /\ ctxHistory[2].added_keys = {LastKey(calls[1].event.type)}

C9_SummaryOnlyAfterJoin ==
    \A c \in DOMAIN calls :
        ( /\ LastKey(calls[c].event.type) \in DOMAIN context
          /\ context[LastKey(calls[c].event.type)].timestamp = calls[c].event.timestamp )
        => \A i \in DOMAIN calls[c].results : "pending" \notin DOMAIN calls[c].results[i]

(* One dispatch has written its summary while another one, of a different  *)
(* kind, is still waiting for a worker.                                    *)
C9_Witness ==
    \E c1, c2 \in DOMAIN calls :
        /\ Len(calls[c1].relevant) = 2
        /\ LastKey(calls[c1].event.type) \in DOMAIN context
        /\ context[LastKey(calls[c1].event.type)].timestamp = calls[c1].event.timestamp
        /\ calls[c2].pc = "gather"
        /\ \E i \in DOMAIN calls[c2].results : "pending" \in DOMAIN calls[c2].results[i]
        /\ LastKey(calls[c2].event.type) \notin DOMAIN context

(* C10: when a dispatch returns 'success' for event e, the context key     *)
(* 'last_' + e.type holds e's timestamp and the aggregated result mapping  *)
(* returned to the caller.                                                 *)
C10_SummaryMatchesOutcome ==
    [][ \A c \in DOMAIN calls :
          (calls[c].pc = "gather" /\ calls'[c].outcome.status = "success")
          => /\ (<<"last_">> \o calls[c].event.type) \in DOMAIN context'
             /\ context'[<<"last_">> \o calls[c].event.type].timestamp
                   = calls[c].event.timestamp
             /\ context'[<<"last_">> \o calls[c].event.type].results
                   = calls'[c].outcome.results ]_vars

(* A successful dispatch of two workers of different classes, whose        *)
(* summary is in the context.                                              *)
C10_Witness ==
    \E c \in DOMAIN calls :
        /\ Succeeded(c)
        /\ Cardinality(DOMAIN calls[c].outcome.results) = 2
        /\ (<<"last_">> \o calls[c].event.type) \in DOMAIN context
        /\ context[<<"last_">> \o calls[c].event.type] = OwnSummary(c)

----------------------------------------------------------------------------
(* Properties of the bounded logs, under SpecLog *)

(* C6: none of the three logs ever holds more entries than its capacity;   *)
(* after N appends a log holds the last min(N, capacity) entries appended, *)
(* in append order.                                                        *)
C6_LogsBounded ==
    /\ Len(eventHistory) <= 1000 /\ Len(eventLog) <= 10000 /\ Len(ctxHistory) <= 1000
    /\ Len(eventHistory) = IF appended.mcp > 1000 THEN 1000 ELSE appended.mcp
    /\ Len(eventLog) = IF appended.bus > 10000 THEN 10000 ELSE appended.bus
    /\ Len(ctxHistory) = IF appended.ctx > 1000 THEN 1000 ELSE appended.ctx
    /\ \A i \in DOMAIN eventHistory :
          eventHistory[i].timestamp = appended.mcp - Len(eventHistory) + i
    /\ \A i \in DOMAIN eventLog :
          eventLog[i].timestamp = appended.bus - Len(eventLog) + i
    /\ \A i \in DOMAIN ctxHistory :
          ctxHistory[i].timestamp = appended.ctx - Len(ctxHistory) + i

(* Each log has been appended to more often than its capacity *)
C6_Witness ==
    /\ appended.mcp > 1000 /\ Len(eventHistory) = 1000
    /\ appended.bus > 10000 /\ Len(eventLog) = 10000
    /\ appended.ctx > 1001 /\ Len(ctxHistory) = 1000

----------------------------------------------------------------------------
(* Properties of SystemEvent construction, under SpecEvent *)

ValidFields(type, payload, priority) ==
    /\ type # << >>
    /\ payload.isdict
    /\ priority \in 1..10

(* C7: SystemEvent(...) succeeds exactly for a non-empty type, a dict      *)
(* payload and a priority in 1..10, and raises otherwise; every event a    *)
(* caller holds or has passed to process_event has valid fields.           *)
C7_ConstructionValidates ==
    /\ lastConstruct.result # "none" =>
          ( lastConstruct.result = "ok"
            <=> ValidFields(lastConstruct.type, lastConstruct.payload,
                            lastConstruct.priority) )
    /\ \A e \in constructed : ValidFields(e.type, e.payload, e.priority)
    /\ \A c \in DOMAIN calls :
          ValidFields(calls[c].event.type, calls[c].event.payload, calls[c].event.priority)
    /\ \A i \in DOMAIN eventHistory :
          ValidFields(eventHistory[i].type, eventHistory[i].payload,
                      eventHistory[i].priority)

(* An event of priority 10 has been dispatched and a construction with     *)
(* priority 11 has failed.                                                 *)
C7_Witness ==
    /\ lastConstruct.result = "Priority must be between 1 and 10"
    /\ lastConstruct.priority = 11
    /\ \E c \in DOMAIN calls : calls[c].event.priority = 10

----------------------------------------------------------------------------
(* process_event statement by statement.  A call executes its statements   *)
(* one after the other; the event loop runs one coroutine at a time, so    *)
(* nothing else runs while a call is between two suspension points.        *)

(* Variant: the event is published before it is stored *)
StatementsPublishFirst ==
    <<"publish", "add_to_history", "determine_relevant_agents", "call_process",
      "await_gather", "process_agent_results", "update_context",
      "return_success">>

(* The statements of process_event in source order *)
ProcessEventStatements ==
    <<"add_to_history", "publish", "determine_relevant_agents", "call_process",
      "await_gather", "process_agent_results", "update_context",
      "return_success">>

NextStatement(s) ==
    LET i == CHOOSE j \in DOMAIN ProcessEventStatements :
                 ProcessEventStatements[j] = s
    IN  ProcessEventStatements[i + 1]

(* Variant: the statements run without the try/except around them *)
TryBlockMissing == {}

(* The statements inside the try block *)
TryBlock ==
    {"call_process", "await_gather", "process_agent_results", "update_context",
     "return_success"}

(* asyncio.iscoroutinefunction(agent.process) *)
IsCoroutineFunction(agent) == agent.cls # "LegacyAgent"

(* str(e) of the exception a plain process function raises *)
ErrorText(agent) == <<"process failed", agent.oid>>

(* An exception leaving a statement: the except clause turns it into the   *)
(* error outcome; outside the try block it leaves process_event.           *)
ExceptionExit(call, statement, e) ==
    IF statement \in TryBlock
    THEN [call EXCEPT !.pc = "returned",
                      !.outcome = [status |-> "error", event |-> call.event.type,
                                   error |-> e]]
    ELSE [call EXCEPT !.pc = "raised"]

Running(c) ==
    \E j \in DOMAIN ProcessEventStatements : calls[c].pc = ProcessEventStatements[j]

(* Variant: calls preempt one another between any two statements *)
AnyInterleaving == TRUE

NoneRunning == \A c \in DOMAIN calls : ~Running(c)

At(c, statement) == c \in DOMAIN calls /\ calls[c].pc = statement

(* process_event is entered *)
BeginProcessEvent(event) ==
    /\ event \in constructed
    /\ NoneRunning
    /\ constructed' = constructed \ {event}
    /\ calls' = Append(calls,
            [event |-> event, relevant |-> << >>, results |-> << >>,
             pc |-> ProcessEventStatements[1], outcome |-> NoOutcome,
             processed |-> EmptyDict])
    /\ UNCHANGED <<shutdownRun, delivery, wakeups, lastCall, heap, snapshot, fresh, lock, threads, busCalls, registerLog, agents, eventHistory, eventLog,
                   subscribers, delivered, busTasks, context, ctxHistory, clock,
                   lastConstruct, processLog, appended>>

(* self._add_to_history(event) *)
StmtAddToHistory(c) ==
    /\ At(c, "add_to_history")
    /\ eventHistory' = McpAddToHistory(eventHistory, calls[c].event)
    /\ appended' = [appended EXCEPT !.mcp = @ + 1]
    /\ calls' = [calls EXCEPT ![c].pc = NextStatement("add_to_history")]
    /\ UNCHANGED <<shutdownRun, delivery, wakeups, lastCall, heap, snapshot, fresh, lock, threads, busCalls, registerLog, agents, eventLog, subscribers,
                   delivered, busTasks, context, ctxHistory, clock, constructed,
                   lastConstruct, processLog>>

(* self.event_bus.publish(event.type, event) *)
StmtPublish(c) ==
    /\ At(c, "publish")
    /\ LET event == calls[c].event
       IN  /\ eventLog' = LogEvent(eventLog, clock, event.type, EventObject(event))
           /\ delivered' = delivered \o
                  SyncCalls(subscribers, event.type, EventObject(event))
           /\ busTasks' = busTasks \o
                  AsyncTasks(subscribers, event.type, EventObject(event))
    /\ appended' = [appended EXCEPT !.bus = @ + 1]
    /\ calls' = [calls EXCEPT ![c].pc = NextStatement("publish")]
    /\ UNCHANGED <<shutdownRun, delivery, wakeups, lastCall, heap, snapshot, fresh, lock, threads, busCalls, registerLog, agents, eventHistory, subscribers,
                   context, ctxHistory, clock, constructed, lastConstruct,
                   processLog>>

(* relevant_agents = self._determine_relevant_agents(event), and the       *)
(* no_agents return when the list is empty                                 *)
StmtDetermineRelevantAgents(c) ==
    /\ At(c, "determine_relevant_agents")
    /\ LET event == calls[c].event
           relevant_agents == DetermineRelevantAgents(agents, event)
       IN  calls' = [calls EXCEPT ![c] =
              IF relevant_agents = << >>
              THEN [@ EXCEPT !.pc = "returned",
                       !.outcome =
                           [status |-> "no_agents",
                            message |-> <<"No agents configured for event type: ">>
                                           \o event.type,
                            event |-> event.type]]
              ELSE [@ EXCEPT !.relevant = relevant_agents,
                       !.pc = NextStatement("determine_relevant_agents")]]
    /\ UNCHANGED <<shutdownRun, delivery, wakeups, lastCall, heap, snapshot, fresh, lock, threads, busCalls, registerLog, agents, eventHistory, eventLog,
                   subscribers, delivered, busTasks, context, ctxHistory, clock,
                   constructed, lastConstruct, processLog, appended>>

(* [agent.process(event) for agent in relevant_agents]: process is called  *)
(* on each worker in list order; a call that raises ends the comprehension *)
(* and the workers after it are not called.                                *)
StmtCallProcess(c) ==
    /\ At(c, "call_process")
    /\ LET relevant_agents == calls[c].relevant
           failing == { i \in DOMAIN relevant_agents :
                          ~IsCoroutineFunction(relevant_agents[i]) }
           first == IF failing = {} THEN 0
                    ELSE CHOOSE i \in failing : \A j \in failing : i <= j
           called == IF first = 0 THEN Len(relevant_agents) ELSE first
       IN  /\ processLog' = processLog \o
                  [i \in 1..called |->
                      [agent |-> relevant_agents[i], event |-> calls[c].event,
                       call |-> c]]
           /\ calls' = [calls EXCEPT ![c] =
                  IF first = 0
                  THEN [@ EXCEPT !.pc = NextStatement("call_process")]
                  ELSE ExceptionExit(@, "call_process",
                                     ErrorText(relevant_agents[first]))]
    /\ UNCHANGED <<shutdownRun, delivery, wakeups, lastCall, heap, snapshot, fresh, lock, threads, busCalls, registerLog, agents, eventHistory, eventLog,
                   subscribers, delivered, busTasks, context, ctxHistory, clock,
                   constructed, lastConstruct, appended>>

(* await asyncio.gather(...): the coroutines are scheduled and the call    *)
(* suspends                                                                *)
StmtAwaitGather(c) ==
    /\ At(c, "await_gather")
    /\ calls' = [calls EXCEPT ![c].results =
                    [i \in DOMAIN calls[c].relevant |-> Pending],
                    ![c].pc = "gather"]
    /\ UNCHANGED <<shutdownRun, delivery, wakeups, lastCall, heap, snapshot, fresh, lock, threads, busCalls, registerLog, agents, eventHistory, eventLog,
                   subscribers, delivered, busTasks, context, ctxHistory, clock,
                   constructed, lastConstruct, processLog, appended>>

(* The await returns the list of results *)
ResumeGather(c) ==
    /\ At(c, "gather")
    /\ NoneRunning
    /\ GatherDone(calls[c].results)
    /\ calls' = [calls EXCEPT ![c].pc = NextStatement("await_gather")]
    /\ UNCHANGED <<shutdownRun, delivery, wakeups, lastCall, heap, snapshot, fresh, lock, threads, busCalls, registerLog, agents, eventHistory, eventLog,
                   subscribers, delivered, busTasks, context, ctxHistory, clock,
                   constructed, lastConstruct, processLog, appended>>

(* processed_results = self._process_agent_results(relevant_agents, results) *)
StmtProcessAgentResults(c) ==
    /\ At(c, "process_agent_results")
    /\ calls' = [calls EXCEPT ![c].processed =
                    ProcessAgentResults(calls[c].relevant, calls[c].results),
                    ![c].pc = NextStatement("process_agent_results")]
    /\ UNCHANGED <<shutdownRun, delivery, wakeups, lastCall, heap, snapshot, fresh, lock, threads, busCalls, registerLog, agents, eventHistory, eventLog,
                   subscribers, delivered, busTasks, context, ctxHistory, clock,
                   constructed, lastConstruct, processLog, appended>>

(* self.shared_context.update({f"last_{event.type}": {...}}) *)
StmtUpdateContext(c) ==
    /\ At(c, "update_context")
    /\ LET after == ContextUpdate(context, ctxHistory, clock,
                                  Summary(calls[c].event, calls[c].processed))
       IN  /\ context' = after.context
           /\ ctxHistory' = after.history
    /\ appended' = [appended EXCEPT !.ctx = @ + 1]
    /\ calls' = [calls EXCEPT ![c].pc = NextStatement("update_context")]
    /\ UNCHANGED <<shutdownRun, delivery, wakeups, lastCall, heap, snapshot, fresh, lock, threads, busCalls, registerLog, agents, eventHistory, eventLog,
                   subscribers, delivered, busTasks, clock, constructed,
                   lastConstruct, processLog>>

(* return {"status": "success", ...} *)
StmtReturnSuccess(c) ==
    /\ At(c, "return_success")
    /\ calls' = [calls EXCEPT ![c].pc = "returned",
                    ![c].outcome =
                        [status |-> "success", event |-> calls[c].event.type,
                         agents_processed |-> Len(calls[c].relevant),
                         results |-> calls[c].processed]]
    /\ UNCHANGED <<shutdownRun, delivery, wakeups, lastCall, heap, snapshot, fresh, lock, threads, busCalls, registerLog, agents, eventHistory, eventLog,
                   subscribers, delivered, busTasks, context, ctxHistory, clock,
                   constructed, lastConstruct, processLog, appended>>

(* The workers registered at startup, one of them possibly a LegacyAgent *)
StepsRegisterInputs ==
    { <<"LA_SECRETARIA", [cls |-> "LaSecretaria", oid |-> 1]>>,
      <<"EL_CALENDISTA", [cls |-> "ElCalendista", oid |-> 2]>>,
      <<"LA_SECRETARIA", LegacyInstance>>,
      <<"EL_CALENDISTA", LegacyInstance>> }

StepsKindInputs == { <<"email_received">>, <<"calendar_event_created">> }

NextSteps ==
    \/ \E r \in StepsRegisterInputs :
          /\ calls = << >>
          /\ RegisterAgent(r[1], r[2])
          /\ UNCHANGED registerLog
    \/ \E k \in StepsKindInputs :
          /\ constructed = {}
          /\ NoneRunning
          /\ NewSystemEvent(k, DictPayload(clock - StartTime + 1), DefaultPriority)
    \/ \E e \in constructed : BeginProcessEvent(e)
    \/ \E c \in DOMAIN calls : StmtAddToHistory(c)
    \/ \E c \in DOMAIN calls : StmtPublish(c)
    \/ \E c \in DOMAIN calls : StmtDetermineRelevantAgents(c)
    \/ \E c \in DOMAIN calls : StmtCallProcess(c)
    \/ \E c \in DOMAIN calls : StmtAwaitGather(c)
    \/ \E c \in DOMAIN calls, i \in 1..2, raises \in BOOLEAN :
          NoneRunning /\ AgentProcess(c, i, raises)
    \/ \E c \in DOMAIN calls : ResumeGather(c)
    \/ \E c \in DOMAIN calls : StmtProcessAgentResults(c)
    \/ \E c \in DOMAIN calls : StmtUpdateContext(c)
    \/ \E c \in DOMAIN calls : StmtReturnSuccess(c)

SpecSteps == Init /\ [][NextSteps]_vars

(* The event loop keeps running whatever is ready, and workers finish *)
LoopSteps ==
    \/ \E c \in DOMAIN calls : StmtAddToHistory(c)
    \/ \E c \in DOMAIN calls : StmtPublish(c)
    \/ \E c \in DOMAIN calls : StmtDetermineRelevantAgents(c)
    \/ \E c \in DOMAIN calls : StmtCallProcess(c)
    \/ \E c \in DOMAIN calls : StmtAwaitGather(c)
    \/ \E c \in DOMAIN calls, i \in 1..2, raises \in BOOLEAN :
          NoneRunning /\ AgentProcess(c, i, raises)
    \/ \E c \in DOMAIN calls : ResumeGather(c)
    \/ \E c \in DOMAIN calls : StmtProcessAgentResults(c)
    \/ \E c \in DOMAIN calls : StmtUpdateContext(c)
    \/ \E c \in DOMAIN calls : StmtReturnSuccess(c)

SpecStepsFair == SpecSteps /\ WF_vars(LoopSteps)

----------------------------------------------------------------------------
(* What a call has done so far, read from the objects it acts on *)

Stored(c) == \E i \in DOMAIN eventHistory : eventHistory[i] = calls[c].event

Published(c) ==
    /\ Len(eventLog) >= c
    /\ eventLog[c].event_type = calls[c].event.type

Resolved(c) == calls[c].relevant # << >>

Invoked(c) == \E i \in DOMAIN processLog : processLog[i].call = c

Joined(c) ==
    /\ calls[c].results # << >>
    /\ \A i \in DOMAIN calls[c].results : "pending" \notin DOMAIN calls[c].results[i]

Aggregated(c) == calls[c].processed # EmptyDict

(* The call is past its context update and nothing has run since *)
JustUpdated(c) == calls[c].pc = "return_success"

HoldsSummaryOf(c) ==
    /\ (<<"last_">> \o calls[c].event.type) \in DOMAIN context
    /\ context[<<"last_">> \o calls[c].event.type] =
           [timestamp |-> calls[c].event.timestamp, results |-> calls[c].processed]

(* The context updates logged for a kind, and the calls of that kind that  *)
(* are past their update                                                   *)
UpdatesLogged(kind) ==
    Cardinality({ i \in DOMAIN ctxHistory :
                    /\ ctxHistory[i].action = "update"
                    /\ (<<"last_">> \o kind) \in
                           (ctxHistory[i].added_keys \cup ctxHistory[i].updated_keys) })

CallsUpdated(kind) ==
    Cardinality({ c \in DOMAIN calls :
                    /\ calls[c].event.type = kind
                    /\ JustUpdated(c) \/ calls[c].outcome.status = "success" })

TerminalOutcomes == {"no_agents", "success", "error"}

StepsInOrder(c) ==
    /\ Published(c) => Stored(c)
    /\ Resolved(c) => Published(c)
    /\ Invoked(c) => Resolved(c)
    /\ calls[c].results # << >> => Invoked(c)
    /\ Aggregated(c) => Joined(c)
    /\ JustUpdated(c) => Aggregated(c) /\ HoldsSummaryOf(c)
    /\ calls[c].outcome.status = "success" =>
          Aggregated(c) /\ calls[c].outcome.results = calls[c].processed
    /\ calls[c].outcome.status = "no_agents" =>
          Published(c) /\ ~Resolved(c) /\ ~Invoked(c)
    /\ calls[c].outcome.status = "error" => Resolved(c)

(* C11: every dispatch call whose workers finish returns, with exactly one *)
(* of the outcomes no_agents, success or error, which it keeps; it never   *)
(* raises to its caller; and what it has done at any moment is a prefix of *)
(* store the event, publish it, resolve the workers, call them, join them, *)
(* aggregate the results, update the context.                              *)
C11_DispatchTerminatesInOrder ==
    /\ [](\A c \in DOMAIN calls :
            /\ calls[c].pc # "raised"
            /\ (calls[c].pc = "returned") <=>
                   (calls[c].outcome.status \in TerminalOutcomes)
            /\ calls[c].pc # "returned" => calls[c].outcome = NoOutcome
            /\ StepsInOrder(c))
    /\ [](\A kind \in KindInputs : UpdatesLogged(kind) = CallsUpdated(kind))
    /\ [][\A c \in DOMAIN calls :
            calls[c].pc = "returned" => calls'[c] = calls[c]]_vars
    /\ \A c \in 1..MaxEvents :
          [](c \in DOMAIN calls =>
                <>(c \in DOMAIN calls /\ calls[c].pc = "returned"))

(* Two dispatches have returned, one with 'success' after its context      *)
(* update and one with 'error'.                                            *)
C11_Witness ==
    \E c \in DOMAIN calls, d \in DOMAIN calls :
        /\ calls[c].pc = "returned" /\ calls[c].outcome.status = "success"
        /\ UpdatesLogged(calls[c].event.type) >= 1
        /\ calls[d].pc = "returned" /\ calls[d].outcome.status = "error"

(* The fan-out of call c has failed outside any worker's coroutine *)
FanOutFailed(c) ==
    /\ calls[c].pc # "call_process"
    /\ \E i \in DOMAIN calls[c].relevant : calls[c].relevant[i].cls = "LegacyAgent"

(* C12: a dispatch whose fan-out raises outside any worker's coroutine     *)
(* returns 'error' with the event kind and a non-empty error description   *)
(* and no results, and has written no summary: no context entry carries    *)
(* its event's timestamp and no context update was logged for it.          *)
C12_MachineryFailureIsError ==
    /\ \A c \in DOMAIN calls :
          /\ FanOutFailed(c) =>
                /\ calls[c].pc = "returned"
                /\ calls[c].outcome.status = "error"
          /\ calls[c].outcome.status = "error" =>
                /\ DOMAIN calls[c].outcome = {"status", "event", "error"}
                /\ calls[c].outcome.event = calls[c].event.type
                /\ calls[c].outcome.error # << >>
                /\ calls[c].processed = EmptyDict
                /\ \A key \in DOMAIN context :
                      context[key].timestamp # calls[c].event.timestamp
    /\ \A kind \in KindInputs :
          UpdatesLogged(kind) =
              Cardinality({ c \in DOMAIN calls :
                              /\ calls[c].event.type = kind
                              /\ calls[c].outcome.status # "error"
                              /\ calls[c].pc \in {"return_success", "returned"}
                              /\ calls[c].relevant # << >> })

(* A dispatch of two workers, the first a LegacyAgent, has returned        *)
(* 'error' while the context holds the summary of another dispatch.        *)
C12_Witness ==
    \E c \in DOMAIN calls :
        /\ calls[c].outcome.status = "error"
        /\ Len(calls[c].relevant) = 2
        /\ calls[c].relevant[1] = LegacyInstance
        /\ context # EmptyDict

(* C13: the event history lists the events of the dispatch calls in the    *)
(* order the calls were entered, whatever the interleaving of the calls;   *)
(* a call that has gone past its first statement has its event in the      *)
(* history exactly once, whatever its outcome.                             *)
C13_HistoryInArrivalOrder ==
    /\ Len(eventHistory) <= Len(calls)
    /\ \A i \in DOMAIN eventHistory : eventHistory[i] = calls[i].event
    /\ \A c \in DOMAIN calls :
          LET copies == { i \in DOMAIN eventHistory : eventHistory[i] = calls[c].event }
          IN  /\ Cardinality(copies) <= 1
              /\ (\/ calls[c].outcome.status \in TerminalOutcomes
                  \/ calls[c].pc = "gather"
                  \/ c < Len(calls)) => Cardinality(copies) = 1

(* Two calls side by side: the first is still waiting for a worker, the    *)
(* second has returned 'error' or 'no_agents', and the history holds both  *)
(* events.                                                                 *)
C13_Witness ==
    /\ Len(calls) = 2
    /\ calls[1].pc = "gather"
    /\ calls[2].outcome.status \in {"error", "no_agents"}
    /\ Len(eventHistory) = 2

----------------------------------------------------------------------------
(* The same dispatch under two completion orders: the workers of an        *)
(* odd-numbered call finish in list order, those of an even-numbered call  *)
(* in the reverse order.                                                   *)

Unfinished(c) == { i \in DOMAIN calls[c].relevant : ~Finished(calls[c], i) }

CompletionSchedule(c, i) ==
    /\ c \in DOMAIN calls
    /\ i \in Unfinished(c)
    /\ IF c % 2 = 1 THEN \A j \in Unfinished(c) : i <= j
                    ELSE \A j \in Unfinished(c) : i >= j

NextOrder ==
    \/ \E r \in RegisterInputs :
          /\ calls = << >>
          /\ RegisterAgent(r[1], r[2])
          /\ UNCHANGED registerLog
    \/ \E k \in KindInputs :
          /\ constructed = {}
          /\ NewSystemEvent(k, DictPayload(clock - StartTime + 1), DefaultPriority)
    \/ \E e \in constructed : ProcessEvent(e)
    \/ \E c \in DOMAIN calls, i \in 1..2, raises \in BOOLEAN :
          CompletionSchedule(c, i) /\ AgentProcess(c, i, raises)
    \/ \E c \in DOMAIN calls : ProcessEventResume(c)

SpecOrder == Init /\ [][NextOrder]_vars

(* Who produced an entry of the aggregated mapping, and what it says *)
EntryProducer(entry) ==
    IF entry.status = "error" THEN entry.error[2] ELSE entry.agent

MappingShape(mapping) ==
    [name \in DOMAIN mapping |-> <<mapping[name].status, EntryProducer(mapping[name])>>]

WorkerRaised(c, i) ==
    \E j \in DOMAIN calls[c].results :
        /\ "exception" \in DOMAIN calls[c].results[j]
        /\ calls[c].results[j].args[2] = calls[c].relevant[i].oid

SameDispatch(c, d) ==
    /\ calls[c].event.type = calls[d].event.type
    /\ calls[c].relevant = calls[d].relevant
    /\ \A i \in DOMAIN calls[c].relevant : WorkerRaised(c, i) <=> WorkerRaised(d, i)

(* C14: two dispatches of the same kind to the same workers, each worker   *)
(* returning or raising alike in both, whose workers finished in opposite  *)
(* orders, yield the same aggregated mapping; and every entry of a mapping *)
(* stands under the name of the worker that produced it.                   *)
C14_MappingIndependentOfCompletionOrder ==
    /\ \A c \in DOMAIN calls, d \in DOMAIN calls :
          (/\ c % 2 = 1 /\ d % 2 = 0
           /\ calls[c].outcome.status = "success"
           /\ calls[d].outcome.status = "success"
           /\ SameDispatch(c, d))
          => MappingShape(calls[c].outcome.results)
                 = MappingShape(calls[d].outcome.results)
    /\ \A c \in DOMAIN calls :
          calls[c].outcome.status = "success" =>
             \A name \in DOMAIN calls[c].outcome.results :
                \E i \in DOMAIN calls[c].relevant :
                   /\ calls[c].relevant[i].cls = name
                   /\ EntryProducer(calls[c].outcome.results[name])
                         = calls[c].relevant[i].oid

(* Two dispatches of email_received to a LaSecretaria and an ElCalendista  *)
(* have both succeeded, the first worker raising in both; in the first     *)
(* call the workers finished in list order, in the second in reverse.     *)
C14_Witness ==
    /\ Len(calls) = 2
    /\ calls[1].outcome.status = "success"
    /\ calls[2].outcome.status = "success"
    /\ Len(calls[1].relevant) = 2
    /\ calls[1].relevant[1].cls # calls[1].relevant[2].cls
    /\ SameDispatch(1, 2)
    /\ WorkerRaised(1, 1) /\ ~WorkerRaised(1, 2)

----------------------------------------------------------------------------
(* Registration at any time, also between dispatches.  The callers keep    *)
(* the arguments of their register_agent calls.                            *)

NextRegister ==
    \/ \E r \in RegisterInputs :
          /\ Len(registerLog) < MaxRegisterCalls
          /\ RegisterAgent(r[1], r[2])
          /\ registerLog' = Append(registerLog, r)
    \/ /\ constructed = {}
       /\ NewSystemEvent(<<"email_received">>, DictPayload(clock - StartTime + 1),
                         DefaultPriority)
    \/ \E e \in constructed : ProcessEvent(e)
    \/ \E c \in DOMAIN calls, i \in 1..2 : AgentProcess(c, i, FALSE)
    \/ \E c \in DOMAIN calls : ProcessEventResume(c)

SpecRegister == Init /\ [][NextRegister]_vars

RegisteredTypes == { t \in AgentType : agents[t] # NoAgent }

TypesInLog == { registerLog[i][1] : i \in DOMAIN registerLog }

(* The instance of the latest register_agent call for an identity *)
LatestRegistered(t) ==
    LET i == CHOOSE j \in DOMAIN registerLog :
                /\ registerLog[j][1] = t
                /\ \A k \in DOMAIN registerLog : registerLog[k][1] = t => k <= j
    IN  registerLog[i][2]

(* C15: after any sequence of register_agent calls the registry holds, for *)
(* each identity registered at least once, the instance of the latest call *)
(* for it and nothing else, so there are as many registered workers as     *)
(* distinct identities registered; and a dispatch invokes, for each routed *)
(* identity, the instance registered latest when it starts.                *)
C15_RegisterReplaces ==
    /\ [](/\ RegisteredTypes = TypesInLog
          /\ Cardinality(RegisteredTypes) = Cardinality(TypesInLog)
          /\ \A t \in TypesInLog : agents[t] = LatestRegistered(t))
    /\ [][Len(calls') = Len(calls) + 1 =>
            /\ Len(processLog') - Len(processLog) =
                  Cardinality(RoutedTypes(calls'[Len(calls')].event.type)
                                 \cap TypesInLog)
            /\ \A i \in (Len(processLog) + 1)..Len(processLog') :
                  \E t \in RoutedTypes(processLog'[i].event.type) \cap TypesInLog :
                      processLog'[i].agent = LatestRegistered(t)]_vars

(* EL_CALENDISTA was registered twice with different instances; a dispatch *)
(* before the second registration invoked the first instance and a         *)
(* dispatch after it invoked the second; two identities are registered.    *)
C15_Witness ==
    /\ Len(registerLog) = 3
    /\ Cardinality(RegisteredTypes) = 2
    /\ \E i \in DOMAIN processLog, j \in DOMAIN processLog :
          /\ i < j
          /\ processLog[i].agent.oid = 2
          /\ processLog[j].agent.oid = 3

----------------------------------------------------------------------------
(* The process(event) invocations made for call c *)
InvocationsOf(c) == { k \in DOMAIN processLog : processLog[k].call = c }

----------------------------------------------------------------------------
(* The bus used directly: subscribe, publish, publish_async, next to        *)
(* dispatches that publish their events.                                   *)

(* Callbacks: plain or coroutine functions that return or raise *)
Handlers ==
    { [name |-> "on_sync", is_async |-> FALSE, raises |-> FALSE],
      [name |-> "on_sync_failing", is_async |-> FALSE, raises |-> TRUE],
      [name |-> "on_async", is_async |-> TRUE, raises |-> FALSE],
      [name |-> "on_async_failing", is_async |-> TRUE, raises |-> TRUE] }

(* The subscriptions made at startup, in this order *)
StartupSubscriptions ==
    << [name |-> "on_sync_failing", is_async |-> FALSE, raises |-> TRUE],
       [name |-> "on_async_failing", is_async |-> TRUE, raises |-> TRUE],
       [name |-> "on_sync", is_async |-> FALSE, raises |-> FALSE],
       [name |-> "on_async", is_async |-> TRUE, raises |-> FALSE] >>

BusTopic == <<"email_received">>

(* A dict payload given to publish by a caller other than the orchestrator *)
DictObject(n) ==
    [pytype |-> "dict", has_dict |-> FALSE, size |-> 1, value |-> DictPayload(n)]

(* What a handler coroutine leaves in the gather of publish_async *)
HandlerResult(callback, payload) ==
    IF callback.raises
    THEN [exception |-> "Exception", args |-> <<"handler failed", callback.name>>]
    ELSE [returned |-> "None"]

(* EventBus.subscribe with a callable *)
Subscribe(event_type, callback) ==
    /\ callback \in Handlers
    /\ subscribers' =
          DictUpdate(subscribers,
                     (event_type :> Append(SubscribersOf(subscribers, event_type),
                                           callback)))
    /\ UNCHANGED <<shutdownRun, delivery, wakeups, heap, snapshot, fresh, lock, threads, busCalls, registerLog, agents, eventHistory, eventLog, delivered,
                   busTasks, context, ctxHistory, clock, constructed,
                   lastConstruct, calls, processLog, appended>>

(* EventBus.publish: the entry is logged, each plain subscriber is called  *)
(* and each coroutine subscriber becomes a task; an exception of a call is *)
(* caught inside the loop.  The call returns in the same step.             *)
Publish(event_type, payload) ==
    /\ eventLog' = LogEvent(eventLog, clock, event_type, payload)
    /\ delivered' = delivered \o SyncCalls(subscribers, event_type, payload)
    /\ busTasks' = busTasks \o AsyncTasks(subscribers, event_type, payload)
    /\ appended' = [appended EXCEPT !.bus = @ + 1]
    /\ busCalls' = Append(busCalls,
          [op |-> "publish", event_type |-> event_type, payload |-> payload,
           tasks |-> << >>, results |-> << >>, pc |-> "returned"])
    /\ UNCHANGED <<shutdownRun, delivery, wakeups, lastCall, heap, snapshot, fresh, lock, threads, registerLog, agents, eventHistory, subscribers, context,
                   ctxHistory, clock, constructed, lastConstruct, calls,
                   processLog>>

(* A task created by publish runs its coroutine to the end *)
RunBusTask(j) ==
    /\ j \in DOMAIN busTasks
    /\ busTasks[j].state = "pending"
    /\ busTasks' = [busTasks EXCEPT ![j].state =
                       IF busTasks[j].callback.raises THEN "failed" ELSE "done"]
    /\ UNCHANGED <<shutdownRun, delivery, wakeups, lastCall, heap, snapshot, fresh, lock, threads, busCalls, registerLog, agents, eventHistory, eventLog,
                   subscribers, delivered, context, ctxHistory, clock, constructed,
                   lastConstruct, calls, processLog, appended>>

(* EventBus.publish_async up to its await: the entry is logged, each plain *)
(* subscriber is called, each coroutine subscriber yields a coroutine; with *)
(* no coroutine the call returns, otherwise it awaits the gather.          *)
PublishAsync(event_type, payload) ==
    /\ eventLog' = LogEvent(eventLog, clock, event_type, payload)
    /\ delivered' = delivered \o SyncCalls(subscribers, event_type, payload)
    /\ appended' = [appended EXCEPT !.bus = @ + 1]
    /\ LET tasks == SelectSeq(SubscribersOf(subscribers, event_type),
                              LAMBDA h : h.is_async)
       IN  busCalls' = Append(busCalls,
              [op |-> "publish_async", event_type |-> event_type,
               payload |-> payload, tasks |-> tasks,
               results |-> [i \in DOMAIN tasks |-> Pending],
               pc |-> IF tasks = << >> THEN "returned" ELSE "gather"])
    /\ UNCHANGED <<shutdownRun, delivery, wakeups, lastCall, heap, snapshot, fresh, lock, threads, registerLog, agents, eventHistory, subscribers, busTasks,
                   context, ctxHistory, clock, constructed, lastConstruct, calls,
                   processLog>>

(* One coroutine gathered by publish_async runs to the end *)
RunGatheredHandler(b, i) ==
    /\ b \in DOMAIN busCalls
    /\ busCalls[b].pc = "gather"
    /\ i \in DOMAIN busCalls[b].results
    /\ IsPending(busCalls[b].results[i])
    /\ busCalls' = [busCalls EXCEPT ![b].results[i] =
                       HandlerResult(busCalls[b].tasks[i], busCalls[b].payload)]
    /\ UNCHANGED <<shutdownRun, delivery, wakeups, lastCall, heap, snapshot, fresh, lock, threads, registerLog, agents, eventHistory, eventLog, subscribers,
                   delivered, busTasks, context, ctxHistory, clock, constructed,
                   lastConstruct, calls, processLog, appended>>

(* publish_async returns from its await *)
PublishAsyncResume(b) ==
    /\ b \in DOMAIN busCalls
    /\ busCalls[b].pc = "gather"
    /\ GatherDone(busCalls[b].results)
    /\ busCalls' = [busCalls EXCEPT ![b].pc = "returned"]
    /\ UNCHANGED <<shutdownRun, delivery, wakeups, lastCall, heap, snapshot, fresh, lock, threads, registerLog, agents, eventHistory, eventLog, subscribers,
                   delivered, busTasks, context, ctxHistory, clock, constructed,
                   lastConstruct, calls, processLog, appended>>

(* Subscriptions are made at startup; the orchestrator has at most one     *)
(* worker and dispatches one event.                                        *)
NextBus ==
    \/ \E i \in DOMAIN StartupSubscriptions :
          /\ eventLog = << >>
          /\ i = Len(SubscribersOf(subscribers, BusTopic)) + 1
          /\ Subscribe(BusTopic, StartupSubscriptions[i])
          /\ UNCHANGED lastCall
    \/ /\ Len(busCalls) < MaxBusCalls
       /\ Publish(BusTopic, DictObject(Len(busCalls) + 1))
    \/ /\ Len(busCalls) < MaxBusCalls
       /\ PublishAsync(BusTopic, DictObject(Len(busCalls) + 1))
    \/ \E j \in DOMAIN busTasks : RunBusTask(j)
    \/ \E b \in DOMAIN busCalls, i \in DOMAIN StartupSubscriptions :
          RunGatheredHandler(b, i)
    \/ \E b \in DOMAIN busCalls : PublishAsyncResume(b)
    \/ /\ eventLog = << >>
       /\ RegisterAgent("LA_SECRETARIA", [cls |-> "LaSecretaria", oid |-> 1])
       /\ UNCHANGED registerLog
    \/ /\ constructed = {}
       /\ calls = << >>
       /\ NewSystemEvent(BusTopic, DictPayload(clock - StartTime + 1),
                         DefaultPriority)
    \/ \E e \in constructed : ProcessEvent(e)
    \/ \E c \in DOMAIN calls : AgentProcess(c, 1, FALSE)
    \/ \E c \in DOMAIN calls : ProcessEventResume(c)

SpecBus == Init /\ [][NextBus]_vars

----------------------------------------------------------------------------
(* The payloads of the publish calls made so far, by callers of the bus    *)
(* and by dispatches                                                       *)
PublishPayloads ==
    { busCalls[b].payload : b \in { x \in DOMAIN busCalls : busCalls[x].op = "publish" } }
    \cup { [pytype |-> "SystemEvent", has_dict |-> TRUE, size |-> 0,
            value |-> calls[c].event] : c \in DOMAIN calls }

TopicSubscribers ==
    IF BusTopic \in DOMAIN subscribers THEN subscribers[BusTopic] ELSE << >>

TimesCalled(h, payload) ==
    Cardinality({ k \in DOMAIN delivered :
                    delivered[k].callback = h /\ delivered[k].payload = payload })

TasksCreated(h, payload) ==
    Cardinality({ k \in DOMAIN busTasks :
                    busTasks[k].callback = h /\ busTasks[k].payload = payload })

(* C17: once publish has been called, it has returned, and every handler   *)
(* subscribed to the topic has been invoked with the payload exactly once, *)
(* a plain one by a call and a coroutine one by a task, whichever of the   *)
(* handlers raise.                                                         *)
C17_PublishIsolatesHandlers ==
    /\ \A b \in DOMAIN busCalls :
          busCalls[b].op = "publish" => busCalls[b].pc = "returned"
    /\ \A payload \in PublishPayloads :
          \A i \in DOMAIN TopicSubscribers :
             LET h == TopicSubscribers[i]
             IN  IF h.is_async
                 THEN TasksCreated(h, payload) = 1 /\ TimesCalled(h, payload) = 0
                 ELSE TimesCalled(h, payload) = 1 /\ TasksCreated(h, payload) = 0

(* A caller's publish has returned with four handlers subscribed, the      *)
(* first of them a plain one that raises; the plain handler after it was   *)
(* called and the coroutine handlers have their tasks.                     *)
C17_Witness ==
    /\ Len(TopicSubscribers) = 4
    /\ TopicSubscribers[1].raises /\ ~TopicSubscribers[1].is_async
    /\ \E b \in DOMAIN busCalls :
          /\ busCalls[b].op = "publish"
          /\ busCalls[b].pc = "returned"
          /\ TimesCalled(TopicSubscribers[1], busCalls[b].payload) = 1
          /\ TimesCalled(TopicSubscribers[3], busCalls[b].payload) = 1
          /\ TasksCreated(TopicSubscribers[4], busCalls[b].payload) = 1

AsyncSubscribers == SelectSeq(TopicSubscribers, LAMBDA h : h.is_async)

(* C18: a publish_async call has called every plain subscriber once and    *)
(* holds one coroutine per coroutine subscriber, whichever handlers raise; *)
(* it has returned only if every one of those coroutines has finished, by  *)
(* returning or by raising.                                                *)
C18_PublishAsyncWaitsForAll ==
    \A b \in DOMAIN busCalls :
        busCalls[b].op = "publish_async" =>
            /\ busCalls[b].pc \in {"gather", "returned"}
            /\ busCalls[b].tasks = AsyncSubscribers
            /\ DOMAIN busCalls[b].results = DOMAIN busCalls[b].tasks
            /\ \A i \in DOMAIN TopicSubscribers :
                  ~TopicSubscribers[i].is_async =>
                      TimesCalled(TopicSubscribers[i], busCalls[b].payload) = 1
            /\ busCalls[b].pc = "returned" =>
                  \A i \in DOMAIN busCalls[b].results :
                      /\ "pending" \notin DOMAIN busCalls[b].results[i]
                      /\ busCalls[b].tasks[i].raises <=>
                            "exception" \in DOMAIN busCalls[b].results[i]

(* publish_async has returned with a raising plain handler, a raising      *)
(* coroutine handler and a coroutine handler that returned.                *)
C18_Witness ==
    \E b \in DOMAIN busCalls :
        /\ busCalls[b].op = "publish_async"
        /\ busCalls[b].pc = "returned"
        /\ Len(busCalls[b].results) = 2
        /\ "exception" \in DOMAIN busCalls[b].results[1]
        /\ "returned" \in DOMAIN busCalls[b].results[2]
        /\ TimesCalled(StartupSubscriptions[1], busCalls[b].payload) = 1

PlainSubscribers == SelectSeq(TopicSubscribers, LAMBDA h : ~h.is_async)

(* A step in which publish was called and returned: by a caller of the bus *)
(* or inside a dispatch                                                    *)
PublishStep ==
    \/ /\ Len(busCalls') = Len(busCalls) + 1
       /\ busCalls'[Len(busCalls')].op = "publish"
       /\ busCalls'[Len(busCalls')].pc = "returned"
    \/ /\ Len(calls') = Len(calls) + 1
       /\ calls'[Len(calls')].pc \in {"gather", "returned"}

(* C19: in the step in which publish is called, every plain subscriber has *)
(* been run and no coroutine subscriber has; each coroutine subscriber has *)
(* a new task of its own, still pending; and the publisher has gone on:    *)
(* publish has returned, a dispatch has reached its join or its return.    *)
(* No other step waits for a task: tasks finish on their own.              *)
C19_PublishDoesNotWait ==
    [][/\ (\/ Len(calls') = Len(calls) + 1
           \/ /\ Len(busCalls') = Len(busCalls) + 1
              /\ busCalls'[Len(busCalls')].op = "publish")
          => /\ PublishStep
             /\ Len(delivered') = Len(delivered) + Len(PlainSubscribers)
             /\ \A k \in (Len(delivered) + 1)..Len(delivered') :
                   ~delivered'[k].callback.is_async
             /\ Len(busTasks') = Len(busTasks) + Len(AsyncSubscribers)
             /\ \A k \in (Len(busTasks) + 1)..Len(busTasks') :
                   /\ busTasks'[k].state = "pending"
                   /\ busTasks'[k].callback = AsyncSubscribers[k - Len(busTasks)]
       /\ \A c \in DOMAIN calls :
             (calls[c].pc # "returned" /\ calls'[c].pc = "returned")
                => busTasks' = busTasks
      ]_vars

(* A dispatch has returned 'success' while a task that publish created for *)
(* its event is still pending.                                             *)
C19_Witness ==
    \E c \in DOMAIN calls, k \in DOMAIN busTasks :
        /\ calls[c].pc = "returned"
        /\ calls[c].outcome.status = "success"
        /\ busTasks[k].payload.value = calls[c].event
        /\ busTasks[k].state = "pending"

(* C20: a step in which publish or publish_async is called, by a caller of *)
(* the bus or inside a dispatch, appends exactly one entry to the bus log, *)
(* and the entry names the topic (for a dispatch, the kind of its event),  *)
(* with or without subscribers, whatever the handlers do and whatever the  *)
(* outcome of the dispatch; no other step touches the log.                 *)
C20_OneLogEntryPerPublish ==
    [][LET busCall == Len(busCalls') = Len(busCalls) + 1
           dispatch == Len(calls') = Len(calls) + 1
       IN  /\ busCall =>
                 /\ eventLog' = Append(eventLog, eventLog'[Len(eventLog')])
                 /\ eventLog'[Len(eventLog')].event_type
                       = busCalls'[Len(busCalls')].event_type
           /\ dispatch =>
                 /\ eventLog' = Append(eventLog, eventLog'[Len(eventLog')])
                 /\ eventLog'[Len(eventLog')].event_type
                       = calls'[Len(calls')].event.type
           /\ ~busCall /\ ~dispatch => eventLog' = eventLog
      ]_vars

(* The log holds three entries for a dispatch that returned no_agents and  *)
(* two calls on the bus, one of each kind, made with handlers subscribed   *)
(* that raise.                                                             *)
C20_Witness ==
    /\ Len(eventLog) = 3
    /\ Len(calls) = 1 /\ calls[1].outcome.status = "no_agents"
    /\ Len(busCalls) = 2
    /\ busCalls[1].op # busCalls[2].op
    /\ Len(TopicSubscribers) >= 2

----------------------------------------------------------------------------
(* Subscription management: subscribe, unsubscribe, clear_subscribers and  *)
(* the queries on the subscriber table.  The table is a defaultdict(list): *)
(* its keys are the domain of the function.                                *)

(* Variant: list.remove takes out every occurrence *)
RemoveAll(lst, x) == SelectSeq(lst, LAMBDA y : y # x)

(* list.remove(x): the first occurrence of x is taken out *)
RemoveFirst(lst, x) ==
    LET i == CHOOSE j \in DOMAIN lst :
                 lst[j] = x /\ \A k \in DOMAIN lst : lst[k] = x => j <= k
    IN  SubSeq(lst, 1, i - 1) \o SubSeq(lst, i + 1, Len(lst))

(* EventBus.unsubscribe: list.remove on the list of a known topic; the     *)
(* ValueError of a callback that is not in the list is caught.             *)
Unsubscribe(event_type, callback) ==
    /\ subscribers' =
          IF /\ event_type \in DOMAIN subscribers
             /\ \E i \in DOMAIN subscribers[event_type] :
                   subscribers[event_type][i] = callback
          THEN [subscribers EXCEPT ![event_type] = RemoveFirst(@, callback)]
          ELSE subscribers
    /\ UNCHANGED <<shutdownRun, delivery, wakeups, heap, snapshot, fresh, lock, threads, busCalls, registerLog,
                   agents, eventHistory, eventLog, delivered, busTasks, context,
                   ctxHistory, clock, constructed, lastConstruct, calls,
                   processLog, appended>>

(* EventBus.clear_subscribers(event_type): the topic is assigned [] *)
ClearSubscribersOf(event_type) ==
    /\ event_type # << >>
    /\ subscribers' = DictUpdate(subscribers, (event_type :> << >>))
    /\ UNCHANGED <<shutdownRun, delivery, wakeups, heap, snapshot, fresh, lock, threads, busCalls, registerLog,
                   agents, eventHistory, eventLog, delivered, busTasks, context,
                   ctxHistory, clock, constructed, lastConstruct, calls,
                   processLog, appended>>

(* EventBus.clear_subscribers(): the table is emptied *)
ClearAllSubscribers ==
    /\ subscribers' = EmptyDict
    /\ UNCHANGED <<shutdownRun, delivery, wakeups, heap, snapshot, fresh, lock, threads, busCalls, registerLog,
                   agents, eventHistory, eventLog, delivered, busTasks, context,
                   ctxHistory, clock, constructed, lastConstruct, calls,
                   processLog, appended>>

(* EventBus.get_subscriber_count(event_type) *)
GetSubscriberCount(subs, event_type) ==
    IF event_type \in DOMAIN subs THEN Len(subs[event_type]) ELSE 0

(* EventBus.get_event_types: the keys of the table *)
GetEventTypes(subs) == DOMAIN subs

SubTopics == { <<"alerts">>, <<"audit">> }

SubHandlers ==
    { [name |-> "on_sync", is_async |-> FALSE, raises |-> FALSE],
      [name |-> "on_async", is_async |-> TRUE, raises |-> FALSE] }

(* The caller notes each call it makes *)
Called(op, event_type, callback) ==
    /\ lastCall.seq < MaxSubscriptionCalls
    /\ lastCall' = [op |-> op, seq |-> lastCall.seq + 1,
                    event_type |-> event_type, callback |-> callback,
                    raised |-> FALSE]

NextSubs ==
    \/ \E t \in SubTopics, h \in SubHandlers :
          Subscribe(t, h) /\ Called("subscribe", t, h)
    \/ \E t \in SubTopics, h \in SubHandlers :
          Unsubscribe(t, h) /\ Called("unsubscribe", t, h)
    \/ \E t \in SubTopics :
          ClearSubscribersOf(t) /\ Called("clear_subscribers", t, "None")
    \/ ClearAllSubscribers /\ Called("clear_subscribers", << >>, "None")

SpecSubs == Init /\ [][NextSubs]_vars

Occurrences(lst, x) == Cardinality({ i \in DOMAIN lst : lst[i] = x })

ListOf(subs, t) == IF t \in DOMAIN subs THEN subs[t] ELSE << >>

(* C21: subscribe appends the handler to the topic's list even when it is  *)
(* already there; unsubscribe of a handler that is in the topic's list     *)
(* takes out one occurrence of it and leaves the other entries in place;   *)
(* unsubscribe of a handler that is not there changes nothing; neither     *)
(* touches another topic, and unsubscribe never raises.                    *)
C21_UnsubscribeRemovesOne ==
    [][lastCall'.seq = lastCall.seq + 1 /\ lastCall'.op \in {"subscribe", "unsubscribe"}
       => LET t == lastCall'.event_type
              h == lastCall'.callback
              before == ListOf(subscribers, t)
              after == ListOf(subscribers', t)
          IN  /\ ~lastCall'.raised
              /\ \A u \in SubTopics \ {t} :
                    /\ ListOf(subscribers', u) = ListOf(subscribers, u)
                    /\ u \in DOMAIN subscribers' <=> u \in DOMAIN subscribers
              /\ lastCall'.op = "subscribe" =>
                    /\ after = Append(before, h)
                    /\ Occurrences(after, h) = Occurrences(before, h) + 1
              /\ (lastCall'.op = "unsubscribe" /\ Occurrences(before, h) > 0) =>
                    /\ Len(after) = Len(before) - 1
                    /\ Occurrences(after, h) = Occurrences(before, h) - 1
                    /\ \E i \in DOMAIN before :
                          /\ before[i] = h
                          /\ after = SubSeq(before, 1, i - 1)
                                        \o SubSeq(before, i + 1, Len(before))
              /\ (lastCall'.op = "unsubscribe" /\ Occurrences(before, h) = 0) =>
                    subscribers' = subscribers
      ]_vars

(* A handler subscribed twice to a topic, next to another handler, has     *)
(* been unsubscribed once: one registration of it is left.                 *)
C21_Witness ==
    /\ lastCall.op = "unsubscribe"
    /\ lastCall.seq = 4
    /\ Occurrences(ListOf(subscribers, lastCall.event_type), lastCall.callback) = 1
    /\ Len(ListOf(subscribers, lastCall.event_type)) = 2

(* C22: every topic that get_event_types lists has at least one subscriber *)
C22_ListedTopicsHaveSubscribers ==
    \A t \in GetEventTypes(subscribers) : GetSubscriberCount(subscribers, t) >= 1

----------------------------------------------------------------------------
(* The history queries: MCP.get_event_history and EventBus.get_event_log.  *)
(* Events are dispatched while no worker is registered, so each dispatch   *)
(* stores the event, publishes it and returns no_agents.                   *)

(* `if event_type:` is false for None and for the empty string; both are  *)
(* written << >>.                                                          *)
NoFilter == << >>

Truthy(event_type) == event_type # << >>

(* MCP.get_event_history(event_type, limit) *)
GetEventHistory(history, event_type, limit) ==
    IF Truthy(event_type)
    THEN LastN(SelectSeq(history, LAMBDA event : event.type = event_type), limit)
    ELSE LastN(history, limit)

(* EventBus.get_event_log(event_type, limit) *)
GetEventLog(log, event_type, limit) ==
    IF Truthy(event_type)
    THEN LastN(SelectSeq(log, LAMBDA entry : entry.event_type = event_type), limit)
    ELSE LastN(log, limit)

QueryKinds == { <<"email_received">>, <<"ping">> }

(* process_event of a fresh event while the registry is empty *)
ProcessUnrouted(kind) ==
    /\ Len(eventHistory) < MaxRecorded
    /\ \A t \in AgentType : agents[t] = NoAgent
    /\ LET event == SystemEventFields(kind, DictPayload(0), clock, DefaultPriority)
       IN  /\ eventHistory' = McpAddToHistory(eventHistory, event)
           /\ eventLog' = LogEvent(eventLog, clock, event.type, EventObject(event))
    /\ clock' = clock + 1
    /\ UNCHANGED <<shutdownRun, delivery, wakeups, lastCall, heap, snapshot, fresh, lock, threads, busCalls,
                   registerLog, agents, subscribers, delivered, busTasks, context,
                   ctxHistory, constructed, lastConstruct, calls, processLog,
                   appended>>

(* A caller's query and what it got back *)
Queried(op, event_type, limit, result) ==
    /\ lastCall' = [op |-> op, seq |-> 0, event_type |-> event_type,
                    limit |-> limit, result |-> result]
    /\ UNCHANGED <<shutdownRun, delivery, wakeups, heap, snapshot, fresh, lock, threads, busCalls, registerLog,
                   agents, eventHistory, eventLog, subscribers, delivered,
                   busTasks, context, ctxHistory, clock, constructed,
                   lastConstruct, calls, processLog, appended>>

NextQuery ==
    \/ \E kind \in QueryKinds : ProcessUnrouted(kind)
    \/ \E f \in QueryKinds \cup {NoFilter}, limit \in 0..MaxLimit :
          Queried("get_event_history", f, limit,
                  GetEventHistory(eventHistory, f, limit))
    \/ \E f \in QueryKinds \cup {NoFilter}, limit \in 0..MaxLimit :
          Queried("get_event_log", f, limit, GetEventLog(eventLog, f, limit))

SpecQuery == Init /\ [][NextQuery]_vars

(* The entries of a list that a filter selects, in the order of the list *)
Matching(lst, f, TypeOf(_)) ==
    IF f = NoFilter THEN lst ELSE SelectSeq(lst, LAMBDA x : TypeOf(x) = f)

(* The k most recent entries of a list, most recent last *)
MostRecent(lst, k) ==
    IF k >= Len(lst) THEN lst ELSE SubSeq(lst, Len(lst) - k + 1, Len(lst))

EventType(event) == event.type
EntryType(entry) == entry.event_type

(* C23: a query with limit >= 0 returns at most `limit` entries, the most  *)
(* recent `limit` entries that match the filter (all entries without a     *)
(* filter), in append order.                                               *)
C23_QueryReturnsMostRecent ==
    [][UNCHANGED <<shutdownRun, delivery, eventHistory, eventLog>> =>
          /\ lastCall'.op = "get_event_history" =>
                /\ Len(lastCall'.result) <= lastCall'.limit
                /\ lastCall'.result =
                      MostRecent(Matching(eventHistory, lastCall'.event_type,
                                          EventType),
                                 lastCall'.limit)
          /\ lastCall'.op = "get_event_log" =>
                /\ Len(lastCall'.result) <= lastCall'.limit
                /\ lastCall'.result =
                      MostRecent(Matching(eventLog, lastCall'.event_type, EntryType),
                                 lastCall'.limit)
      ]_vars

----------------------------------------------------------------------------
(* SharedContextManager: the values it holds and its operations            *)

(* Python values by type.  A dict value is a reference to a mutable object *)
(* whose content is in the heap.                                           *)
PyNone == [pytype |-> "NoneType"]
PyInt(n) == [pytype |-> "int", v |-> n]
PyDictRef(a) == [pytype |-> "dict", ref |-> a]

(* SharedContextManager._log_change *)
LogChangeEntry(now, key, old_value) ==
    [timestamp |-> now, action |-> "set", key |-> key,
     had_previous_value |-> old_value # PyNone]

(* SharedContextManager._log_deletion *)
LogDeletionEntry(now, key) == [timestamp |-> now, action |-> "delete", key |-> key]

(* SharedContextManager.get: self._context.get(key, default) *)
ContextGet(ctx, key, default) == IF key \in DOMAIN ctx THEN ctx[key] ELSE default

(* SharedContextManager.has *)
ContextHas(ctx, key) == key \in DOMAIN ctx

(* Variant: dict.setdefault, a present key keeps its value *)
ContextSetIfAbsent(ctx, history, now, key, value) ==
    LET old_value == ContextGet(ctx, key, PyNone)
    IN  [context |-> IF key \in DOMAIN ctx THEN ctx ELSE DictUpdate(ctx, (key :> value)),
         history |-> CtxAddToHistory(history, LogChangeEntry(now, key, old_value))]

(* SharedContextManager.set: [context, history] after the call *)
ContextSet(ctx, history, now, key, value) ==
    LET old_value == ContextGet(ctx, key, PyNone)
    IN  [context |-> DictUpdate(ctx, (key :> value)),
         history |-> CtxAddToHistory(history, LogChangeEntry(now, key, old_value))]

(* Variant: the deletion is logged whether or not the key was there *)
ContextDeleteAlwaysLogged(ctx, history, now, key) ==
    [context |-> [k \in DOMAIN ctx \ {key} |-> ctx[k]],
     history |-> CtxAddToHistory(history, LogDeletionEntry(now, key)),
     result |-> key \in DOMAIN ctx]

(* SharedContextManager.delete: [context, history, result] after the call *)
ContextDelete(ctx, history, now, key) ==
    IF key \in DOMAIN ctx
    THEN [context |-> [k \in DOMAIN ctx \ {key} |-> ctx[k]],
          history |-> CtxAddToHistory(history, LogDeletionEntry(now, key)),
          result |-> TRUE]
    ELSE [context |-> ctx, history |-> history, result |-> FALSE]

(* SharedContextManager._log_clear, called after the map was emptied *)
LogClearEntry(now, cleared) ==
    [timestamp |-> now, action |-> "clear",
     keys_cleared |-> Cardinality(DOMAIN cleared)]

(* SharedContextManager.clear: [context, history] after the call *)
ContextClear(ctx, history, now) ==
    [context |-> EmptyDict,
     history |-> CtxAddToHistory(history, LogClearEntry(now, EmptyDict))]

----------------------------------------------------------------------------
(* Threads calling the store.  `with self._lock` is an acquire that waits  *)
(* for the lock and a release at the end of the block; the statements of   *)
(* the block are steps of their own, and dict.update writes the keys of    *)
(* its argument one after the other.                                       *)

(* Variant: the lock is handed out whoever holds it *)
CanAcquireAlways(l) == TRUE

(* threading.Lock.acquire returns when nobody holds the lock *)
CanAcquire(l) == l = "free"

ThreadKeyA == <<"a">>
ThreadKeyB == <<"b">>

(* The calls threads make *)
ThreadCalls ==
    { [op |-> "update", new_data |-> (ThreadKeyA :> PyInt(1)) @@ (ThreadKeyB :> PyInt(1))],
      [op |-> "set", key |-> ThreadKeyA, value |-> PyInt(2)],
      [op |-> "get", key |-> ThreadKeyA],
      [op |-> "get_all"],
      [op |-> "has", key |-> ThreadKeyB],
      [op |-> "delete", key |-> ThreadKeyB],
      [op |-> "clear"],
      [op |-> "get_system_stats"] }

ThreadFrame ==
    <<shutdownRun, delivery, wakeups, heap, snapshot, fresh, busCalls, registerLog, agents, eventHistory,
      eventLog, subscribers, delivered, busTasks, clock, constructed,
      lastConstruct, calls, processLog, appended>>

(* A thread enters a method of the store, or get_system_stats *)
ThreadCall(t, c) ==
    /\ threads[t].pc = "idle"
    /\ threads' = [threads EXCEPT ![t] =
          [pc |-> IF c.op = "get_system_stats" THEN "stats" ELSE "acquire",
           call |-> c, todo |-> {}, old_keys |-> {}]]
    /\ UNCHANGED <<shutdownRun, delivery, wakeups, context, ctxHistory, lock>>
    /\ UNCHANGED ThreadFrame

(* with self._lock: *)
Acquire(t) ==
    /\ threads[t].pc = "acquire"
    /\ CanAcquire(lock)
    /\ lock' = t
    /\ threads' = [threads EXCEPT ![t].pc =
                      IF threads[t].call.op = "update" THEN "old_keys" ELSE "body"]
    /\ UNCHANGED <<shutdownRun, delivery, wakeups, lastCall, context, ctxHistory>>
    /\ UNCHANGED ThreadFrame

(* update: old_keys = set(self._context.keys()) *)
UpdateOldKeys(t) ==
    /\ threads[t].pc = "old_keys"
    /\ threads' = [threads EXCEPT ![t].pc = "merge",
                                  ![t].old_keys = DOMAIN context,
                                  ![t].todo = DOMAIN threads[t].call.new_data]
    /\ UNCHANGED <<shutdownRun, delivery, wakeups, lastCall, context, ctxHistory, lock>>
    /\ UNCHANGED ThreadFrame

(* update: self._context.update(new_data), one key *)
UpdateWriteKey(t) ==
    /\ threads[t].pc = "merge"
    /\ \E k \in threads[t].todo :
          /\ context' = DictUpdate(context, (k :> threads[t].call.new_data[k]))
          /\ threads' = [threads EXCEPT ![t].todo = @ \ {k},
                            ![t].pc = IF threads[t].todo = {k} THEN "log" ELSE "merge"]
    /\ UNCHANGED <<shutdownRun, delivery, wakeups, lastCall, ctxHistory, lock>>
    /\ UNCHANGED ThreadFrame

(* update: new_keys = set(new_data.keys()); self._log_update(...) *)
UpdateLog(t) ==
    /\ threads[t].pc = "log"
    /\ ctxHistory' =
          CtxAddToHistory(ctxHistory,
              LogUpdateEntry(clock, DOMAIN threads[t].call.new_data,
                             threads[t].old_keys, context))
    /\ threads' = [threads EXCEPT ![t].pc = "release"]
    /\ UNCHANGED <<shutdownRun, delivery, wakeups, lastCall, context, lock>>
    /\ UNCHANGED ThreadFrame

(* The block of set, get, get_all, has, delete or clear *)
Body(t) ==
    /\ threads[t].pc = "body"
    /\ LET c == threads[t].call
           after ==
              IF c.op = "set"
              THEN ContextSet(context, ctxHistory, clock, c.key, c.value)
              ELSE IF c.op = "delete"
              THEN ContextDelete(context, ctxHistory, clock, c.key)
              ELSE IF c.op = "clear"
              THEN ContextClear(context, ctxHistory, clock)
              ELSE [context |-> context, history |-> ctxHistory]
       IN  /\ context' = after.context
           /\ ctxHistory' = after.history
    /\ threads' = [threads EXCEPT ![t].pc = "release"]
    /\ UNCHANGED <<shutdownRun, delivery, wakeups, lastCall, lock>>
    /\ UNCHANGED ThreadFrame

(* The end of the with block, and the return *)
Release(t) ==
    /\ threads[t].pc = "release"
    /\ lock' = "free"
    /\ threads' = [threads EXCEPT ![t] = Idle]
    /\ UNCHANGED <<shutdownRun, delivery, wakeups, lastCall, context, ctxHistory>>
    /\ UNCHANGED ThreadFrame

(* get_system_stats: len(self.shared_context._context), and the return *)
StatsRead(t) ==
    /\ threads[t].pc = "stats"
    /\ threads' = [threads EXCEPT ![t] = Idle]
    /\ UNCHANGED <<shutdownRun, delivery, wakeups, lastCall, context, ctxHistory, lock>>
    /\ UNCHANGED ThreadFrame

(* The callers count the calls they start *)
Started(c) ==
    /\ lastCall.seq < MaxThreadCalls
    /\ lastCall' = [op |-> c.op, seq |-> lastCall.seq + 1]

NextThreads ==
    \/ \E t \in Threads, c \in ThreadCalls : ThreadCall(t, c) /\ Started(c)
    \/ \E t \in Threads : Acquire(t)
    \/ \E t \in Threads : UpdateOldKeys(t)
    \/ \E t \in Threads : UpdateWriteKey(t)
    \/ \E t \in Threads : UpdateLog(t)
    \/ \E t \in Threads : Body(t)
    \/ \E t \in Threads : Release(t)
    \/ \E t \in Threads : StatsRead(t)

SpecThreads == Init /\ [][NextThreads]_vars

(* Thread u has written some and not all keys of its update's mapping *)
Partial(u) ==
    /\ threads[u].pc = "merge"
    /\ threads[u].todo # {}
    /\ threads[u].todo # DOMAIN threads[u].call.new_data

(* Thread t is inside the block of a store method *)
InStore(t) == threads[t].pc \in {"old_keys", "merge", "log", "body", "release"}

(* C24: while an update has written only some keys of its mapping, the     *)
(* updating thread holds the lock and no other thread is inside the block  *)
(* of get, get_all, has, set, delete or update.                            *)
C24_UpdateIsAtomic ==
    \A u \in Threads :
        Partial(u) =>
            /\ lock = u
            /\ \A t \in Threads \ {u} : ~InStore(t)

(* An update is half written while the other thread waits for the lock *)
C24_Witness ==
    \E u \in Threads : \E t \in Threads \ {u} :
        /\ Partial(u)
        /\ threads[t].pc = "acquire"
        /\ threads[t].call.op \in {"get_all", "update"}

(* Thread t reads or writes the key/value map in this step *)
Accesses(t) ==
    /\ threads[t].pc \in {"old_keys", "merge", "log", "body", "stats"}
    /\ threads'[t] # threads[t]

(* C25: every step that reads or writes the store's map is taken by the    *)
(* thread that holds the store's lock.                                     *)
C25_AccessesHoldLock ==
    [][\A t \in Threads : Accesses(t) => lock = t]_vars

----------------------------------------------------------------------------
(* The store used by one caller: set, delete, update, clear and the        *)
(* namespace helpers.  Keys are strings, written character by character.   *)

(* Variant: the prefix is the namespace without the separator *)
PrefixBare(namespace) == namespace

(* prefix = f"{namespace}:" *)
Prefix(namespace) == namespace \o <<":">>

(* full_key = f"{namespace}:{key}" *)
FullKey(namespace, key) == namespace \o <<":">> \o key

(* str.startswith *)
StartsWith(str, prefix) ==
    /\ Len(str) >= Len(prefix)
    /\ SubSeq(str, 1, Len(prefix)) = prefix

(* SharedContextManager.get_namespace *)
GetNamespace(ctx, namespace) ==
    LET prefix == Prefix(namespace)
    IN  [key \in { k \in DOMAIN ctx : StartsWith(k, prefix) } |-> ctx[key]]

(* SharedContextManager.set_namespaced *)
ContextSetNamespaced(ctx, history, now, namespace, key, value) ==
    ContextSet(ctx, history, now, FullKey(namespace, key), value)

(* SharedContextManager.get_namespaced *)
ContextGetNamespaced(ctx, namespace, key, default) ==
    ContextGet(ctx, FullKey(namespace, key), default)

Namespaces == { <<"a">>, <<"a", "b">> }
SubKeys == { <<"k">> }
StoreKeys == { <<"a">>, <<"a", ":", "k">>, <<"a", "b", ":", "k">> }
StoreValues == { PyInt(1), PyInt(2) }
Defaults == { PyNone, PyInt(0) }
StoreMapping == (<<"a">> :> PyInt(1)) @@ (<<"a", "b", ":", "k">> :> PyInt(1))

StoreFrame ==
    <<shutdownRun, delivery, wakeups, heap, snapshot, fresh, lock, threads, busCalls, registerLog, agents,
      eventHistory, eventLog, subscribers, delivered, busTasks, clock,
      constructed, lastConstruct, calls, processLog, appended>>

(* The store after a call, and what the caller notes about the call *)
StoreCall(after, note) ==
    /\ lastCall.seq < MaxStoreCalls
    /\ context' = after.context
    /\ ctxHistory' = after.history
    /\ lastCall' = note @@ [seq |-> lastCall.seq + 1]
    /\ UNCHANGED StoreFrame

Set(key, value) ==
    StoreCall(ContextSet(context, ctxHistory, clock, key, value),
              [op |-> "set", key |-> key, value |-> value])

Delete(key) ==
    LET after == ContextDelete(context, ctxHistory, clock, key)
    IN  StoreCall(after, [op |-> "delete", key |-> key, result |-> after.result])

Update(new_data) ==
    StoreCall(ContextUpdate(context, ctxHistory, clock, new_data),
              [op |-> "update", new_data |-> new_data])

Clear ==
    StoreCall(ContextClear(context, ctxHistory, clock), [op |-> "clear"])

SetNamespaced(namespace, key, value) ==
    StoreCall(ContextSetNamespaced(context, ctxHistory, clock, namespace, key, value),
              [op |-> "set_namespaced", namespace |-> namespace, key |-> key,
               value |-> value])

NextStore ==
    \/ \E k \in StoreKeys, v \in StoreValues : Set(k, v)
    \/ \E k \in StoreKeys : Delete(k)
    \/ Update(StoreMapping)
    \/ Clear
    \/ \E ns \in Namespaces, k \in SubKeys, v \in StoreValues : SetNamespaced(ns, k, v)

SpecStore == Init /\ [][NextStore]_vars

(* Every key but k is present or absent as before, with its value *)
OthersUnchanged(k) ==
    \A j \in (DOMAIN context \cup DOMAIN context') \ {k} :
        /\ j \in DOMAIN context
        /\ j \in DOMAIN context'
        /\ context'[j] = context[j]

(* C26: after set(k, v), get(k) returns v and has(k) is true; after        *)
(* delete(k) of a present key, delete has returned True, get(k, default)   *)
(* returns the default and has(k) is false; every other key is as before.  *)
C26_SetGetDeleteRoundTrip ==
    [][lastCall'.seq = lastCall.seq + 1 =>
          /\ lastCall'.op = "set" =>
                /\ \A d \in Defaults :
                      ContextGet(context', lastCall'.key, d) = lastCall'.value
                /\ ContextHas(context', lastCall'.key)
                /\ OthersUnchanged(lastCall'.key)
          /\ (lastCall'.op = "delete" /\ ContextHas(context, lastCall'.key)) =>
                /\ lastCall'.result = TRUE
                /\ \A d \in Defaults : ContextGet(context', lastCall'.key, d) = d
                /\ ~ContextHas(context', lastCall'.key)
                /\ OthersUnchanged(lastCall'.key)
      ]_vars

(* A key set over its earlier value, next to another key, then deleted *)
C26_Witness ==
    /\ lastCall.op = "delete"
    /\ lastCall.result = TRUE
    /\ lastCall.seq = 3
    /\ context # EmptyDict
    /\ \E i \in DOMAIN ctxHistory :
          /\ ctxHistory[i].action = "set"
          /\ ctxHistory[i].had_previous_value

(* The keys of the store that read as `ns`, then ':', then anything *)
KeysOfNamespace(ctx, ns) ==
    { k \in DOMAIN ctx :
         /\ Len(k) > Len(ns)
         /\ \A i \in 1..Len(ns) : k[i] = ns[i]
         /\ k[Len(ns) + 1] = ":" }

NamespaceExact ==
    \A ns \in Namespaces :
        LET group == GetNamespace(context, ns)
        IN  /\ DOMAIN group = KeysOfNamespace(context, ns)
            /\ \A k \in DOMAIN group : group[k] = context[k]
            /\ \A other \in Namespaces \ {ns}, k \in SubKeys :
                  FullKey(other, k) \notin DOMAIN group

(* C30: after set_namespaced(ns, k, v), get_namespaced(ns, k) and          *)
(* get('ns:k') return v; get_namespace(ns) is always the store's entries   *)
(* whose key starts with 'ns:', under their full keys, and holds no entry  *)
(* of the other namespace.                                                 *)
C30_NamespaceIsCompoundKey ==
    [][/\ (lastCall'.seq = lastCall.seq + 1 /\ lastCall'.op = "set_namespaced") =>
             \A d \in Defaults :
                 /\ ContextGetNamespaced(context', lastCall'.namespace,
                                         lastCall'.key, d) = lastCall'.value
                 /\ ContextGet(context',
                               lastCall'.namespace \o <<":">> \o lastCall'.key, d)
                       = lastCall'.value
       /\ NamespaceExact'
      ]_vars

(* Both namespaces and the bare key 'a' are in the store; namespace 'a'    *)
(* holds one entry.                                                        *)
C30_Witness ==
    /\ lastCall.op = "set_namespaced"
    /\ DOMAIN context = StoreKeys
    /\ DOMAIN GetNamespace(context, <<"a">>) = { <<"a", ":", "k">> }

----------------------------------------------------------------------------
(* get_all and what the caller does with the mapping it returns.  A dict   *)
(* stored as a value is an object of the heap; the store and every copy of *)
(* its map hold references to it.                                          *)

(* self._context.copy(): a new map with the same value objects *)
ShallowCopy(ctx, objects) == [map |-> ctx, heap |-> objects]

SnapshotKeys == { <<"a">>, <<"b">> }
StatusField == <<"status">>

SnapshotFrame ==
    <<shutdownRun, delivery, wakeups, fresh, lock, threads, busCalls, registerLog, agents, eventHistory,
      eventLog, subscribers, delivered, busTasks, clock, constructed,
      lastConstruct, calls, processLog, appended>>

CallerDid(op, key) ==
    /\ lastCall.seq < MaxStoreCalls
    /\ lastCall' = [op |-> op, seq |-> lastCall.seq + 1, key |-> key]

(* set(key, {"status": 1}) with a dict the caller has just built *)
SetDict(key) ==
    LET a == Cardinality(DOMAIN heap) + 1
        after == ContextSet(context, ctxHistory, clock, key, PyDictRef(a))
    IN  /\ heap' = heap @@ (a :> (StatusField :> PyInt(1)))
        /\ context' = after.context
        /\ ctxHistory' = after.history
        /\ CallerDid("set", key)
        /\ UNCHANGED snapshot
        /\ UNCHANGED SnapshotFrame

(* snapshot = store.get_all() *)
GetAll ==
    LET copy == ShallowCopy(context, heap)
    IN  /\ snapshot' = [taken |-> TRUE, map |-> copy.map]
        /\ heap' = copy.heap
        /\ CallerDid("get_all", << >>)
        /\ UNCHANGED <<shutdownRun, delivery, wakeups, context, ctxHistory>>
        /\ UNCHANGED SnapshotFrame

(* snapshot[key] = 2 *)
MutateSnapshotKey(key) ==
    /\ snapshot.taken
    /\ snapshot' = [snapshot EXCEPT !.map = DictUpdate(@, (key :> PyInt(2)))]
    /\ CallerDid("mutate_key", key)
    /\ UNCHANGED <<shutdownRun, delivery, wakeups, context, ctxHistory, heap>>
    /\ UNCHANGED SnapshotFrame

(* snapshot[key]["status"] = 2, for a key whose value is a dict *)
MutateSnapshotValue(key) ==
    /\ snapshot.taken
    /\ key \in DOMAIN snapshot.map
    /\ snapshot.map[key].pytype = "dict"
    /\ heap' = [heap EXCEPT ![snapshot.map[key].ref] =
                   DictUpdate(@, (StatusField :> PyInt(2)))]
    /\ CallerDid("mutate_value", key)
    /\ UNCHANGED <<shutdownRun, delivery, wakeups, context, ctxHistory, snapshot>>
    /\ UNCHANGED SnapshotFrame

NextSnapshot ==
    \/ \E k \in SnapshotKeys : Set(k, PyInt(1))
    \/ \E k \in SnapshotKeys : SetDict(k)
    \/ \E k \in SnapshotKeys : Delete(k)
    \/ GetAll
    \/ \E k \in SnapshotKeys : MutateSnapshotKey(k)
    \/ \E k \in SnapshotKeys : MutateSnapshotValue(k)

SpecSnapshot == Init /\ [][NextSnapshot]_vars

(* What a reader of a map sees: each value, a dict with its content *)
View(map, objects) ==
    [k \in DOMAIN map |->
        IF map[k].pytype = "dict"
        THEN [pytype |-> "dict", content |-> objects[map[k].ref]]
        ELSE map[k]]

(* C29: a mutation the caller makes to the returned mapping or to a value  *)
(* in it leaves what get and get_all return unchanged, and a write to the  *)
(* store leaves a returned snapshot unchanged.                             *)
C29_GetAllIsSnapshot ==
    [][lastCall'.seq = lastCall.seq + 1 =>
          /\ lastCall'.op \in {"mutate_key", "mutate_value"} =>
                View(context', heap') = View(context, heap)
          /\ (lastCall'.op \in {"set", "delete"} /\ snapshot.taken) =>
                View(snapshot'.map, heap') = View(snapshot.map, heap)
      ]_vars

----------------------------------------------------------------------------
(* export_to_json and import_from_json.  A JSON text is written as the     *)
(* document it denotes; a dict or list held as a value is written by its   *)
(* content.                                                                *)

PyStr(str) == [pytype |-> "str", v |-> str]
PyList(items) == [pytype |-> "list", items |-> items]
PyDict(content) == [pytype |-> "dict", content |-> content]
PyDatetime(n) == [pytype |-> "datetime", v |-> n]

JNumber(n) == [json |-> "number", v |-> n]
JString(str) == [json |-> "string", v |-> str]
JNull == [json |-> "null"]
JArray(items) == [json |-> "array", items |-> items]
JObject(members) == [json |-> "object", members |-> members]
InvalidText == [json |-> "invalid"]

(* str(o) of an object json cannot serialize *)
Str(o) == <<o.pytype, "(", o.v, ")">>

(* json.dumps of a value that holds no other value; default=str is called  *)
(* for a type json does not know.                                          *)
JsonEncodeScalar(o) ==
    IF o.pytype = "int" THEN JNumber(o.v)
    ELSE IF o.pytype = "str" THEN JString(o.v)
    ELSE IF o.pytype = "NoneType" THEN JNull
    ELSE JString(Str(o))

JsonEncode(o) ==
    IF o.pytype = "list"
    THEN JArray([i \in DOMAIN o.items |-> JsonEncodeScalar(o.items[i])])
    ELSE IF o.pytype = "dict"
    THEN JObject([k \in DOMAIN o.content |-> JsonEncodeScalar(o.content[k])])
    ELSE JsonEncodeScalar(o)

(* json.dumps(self._context, indent=2, default=str) *)
JsonDumps(ctx) == JObject([k \in DOMAIN ctx |-> JsonEncode(ctx[k])])

JsonDecodeScalar(j) ==
    IF j.json = "number" THEN PyInt(j.v)
    ELSE IF j.json = "string" THEN PyStr(j.v)
    ELSE PyNone

JsonDecode(j) ==
    IF j.json = "array"
    THEN PyList([i \in DOMAIN j.items |-> JsonDecodeScalar(j.items[i])])
    ELSE IF j.json = "object"
    THEN PyDict([k \in DOMAIN j.members |-> JsonDecodeScalar(j.members[k])])
    ELSE JsonDecodeScalar(j)

(* json.loads: the JSONDecodeError of a text that is not JSON, or the data; *)
(* a document that is an object gives a dict.                               *)
JsonLoads(json_str) ==
    IF json_str.json = "invalid" THEN [raised |-> "JSONDecodeError"]
    ELSE IF json_str.json = "object"
    THEN [raised |-> "None", isdict |-> TRUE,
          data |-> [k \in DOMAIN json_str.members |-> JsonDecode(json_str.members[k])]]
    ELSE [raised |-> "None", isdict |-> FALSE, data |-> JsonDecode(json_str)]

(* SharedContextManager.export_to_json *)
ExportToJson(ctx) == JsonDumps(ctx)

(* Variant: the JSONDecodeError is not caught *)
ImportFromJsonUncaught(ctx, history, now, json_str) ==
    LET loaded == JsonLoads(json_str)
    IN  IF loaded.raised # "None"
        THEN [context |-> ctx, history |-> history, result |-> loaded.raised]
        ELSE IF loaded.isdict
        THEN ContextUpdate(ctx, history, now, loaded.data) @@ [result |-> "imported"]
        ELSE [context |-> ctx, history |-> history, result |-> "TypeError"]

(* SharedContextManager.import_from_json: [context, history, result] after *)
(* the call.  The JSONDecodeError is caught; update of data that is a list *)
(* of numbers raises TypeError out of dict.update, to the caller.          *)
ImportFromJson(ctx, history, now, json_str) ==
    LET loaded == JsonLoads(json_str)
    IN  IF loaded.raised # "None"
        THEN [context |-> ctx, history |-> history, result |-> "failed to import"]
        ELSE IF loaded.isdict
        THEN ContextUpdate(ctx, history, now, loaded.data) @@ [result |-> "imported"]
        ELSE [context |-> ctx, history |-> history, result |-> "TypeError"]

JsonKeys == { <<"a">>, <<"b">> }

JsonValues ==
    { PyInt(1), PyStr(<<"x">>), PyNone, PyList(<<PyInt(1)>>),
      PyDict((<<"status">> :> PyInt(1))), PyDatetime(2026) }

(* The texts callers import: {"a": 2, "c": "x"}, a text that is not JSON,  *)
(* and [1].                                                                *)
JsonTexts ==
    { JObject((<<"a">> :> JNumber(2)) @@ (<<"c">> :> JString(<<"x">>))),
      InvalidText,
      JArray(<<JNumber(1)>>) }

JsonFrame ==
    <<shutdownRun, delivery, wakeups, heap, snapshot, lock, threads, busCalls, registerLog, agents,
      eventHistory, eventLog, subscribers, delivered, busTasks, clock,
      constructed, lastConstruct, calls, processLog, appended>>

(* store.import_from_json(json_str) *)
Import(json_str) ==
    LET after == ImportFromJson(context, ctxHistory, clock, json_str)
    IN  /\ lastCall.seq < MaxStoreCalls
        /\ context' = after.context
        /\ ctxHistory' = after.history
        /\ lastCall' = [op |-> "import_from_json", seq |-> lastCall.seq + 1,
                        json_str |-> json_str, result |-> after.result]
        /\ UNCHANGED fresh
        /\ UNCHANGED JsonFrame

(* other = SharedContextManager(); other.import_from_json(store.export_to_json()) *)
ExportThenImportFresh ==
    LET json_str == ExportToJson(context)
        after == ImportFromJson(EmptyDict, << >>, clock, json_str)
    IN  /\ lastCall.seq < MaxStoreCalls
        /\ fresh' = after.context
        /\ lastCall' = [op |-> "export_import", seq |-> lastCall.seq + 1,
                        json_str |-> json_str, result |-> after.result]
        /\ UNCHANGED <<shutdownRun, delivery, wakeups, context, ctxHistory>>
        /\ UNCHANGED JsonFrame

NextJson ==
    \/ \E k \in JsonKeys, v \in JsonValues : Set(k, v)
    \/ \E json_str \in JsonTexts : Import(json_str)
    \/ ExportThenImportFresh

SpecJson == Init /\ [][NextJson]_vars

(* C27: after export_to_json of a store and import_from_json of the text   *)
(* into a new store, the new store has the keys of the first, each with an *)
(* equal value.                                                            *)
C27_ExportImportRoundTrip ==
    [][(lastCall'.seq = lastCall.seq + 1 /\ lastCall'.op = "export_import") =>
          /\ DOMAIN fresh' = DOMAIN context
          /\ \A k \in DOMAIN context :
                k \in DOMAIN fresh' /\ fresh'[k] = context[k]
      ]_vars

(* The value the document D gives key k *)
ValueIn(D, k) == JsonDecode(D.members[k])

(* C28: after import_from_json of an object D into a store, every key of D *)
(* has D's value and every other key of the store is still there with the  *)
(* value it had.                                                           *)
C28_ImportMerges ==
    [][(/\ lastCall'.seq = lastCall.seq + 1
        /\ lastCall'.op = "import_from_json"
        /\ lastCall'.json_str.json = "object") =>
          LET D == lastCall'.json_str
          IN  /\ \A k \in DOMAIN D.members :
                    k \in DOMAIN context' /\ context'[k] = ValueIn(D, k)
              /\ \A k \in DOMAIN context \ DOMAIN D.members :
                    k \in DOMAIN context' /\ context'[k] = context[k]
      ]_vars

(* {"a": 2, "c": "x"} imported into a store that held a and b: a was       *)
(* overwritten, c added, b kept.                                           *)
C28_Witness ==
    /\ lastCall.op = "import_from_json"
    /\ lastCall.result = "imported"
    /\ DOMAIN context = { <<"a">>, <<"b">>, <<"c">> }
    /\ context[<<"a">>] = PyInt(2)
    /\ ctxHistory[Len(ctxHistory)].updated_keys = { <<"a">> }

----------------------------------------------------------------------------
(* Calls that must leave the store as it was *)

(* C38: delete of a key that is not in the store returns False and leaves  *)
(* the contents and the change history as they were.                       *)
C38_DeleteAbsentChangesNothing ==
    [][(/\ lastCall'.seq = lastCall.seq + 1
        /\ lastCall'.op = "delete"
        /\ lastCall'.key \notin DOMAIN context) =>
          /\ lastCall'.result = FALSE
          /\ context' = context
          /\ ctxHistory' = ctxHistory
      ]_vars

(* A delete of an absent key has returned False on a store that holds      *)
(* another key and has a history.                                          *)
C38_Witness ==
    /\ lastCall.op = "delete"
    /\ lastCall.result = FALSE
    /\ context # EmptyDict
    /\ lastCall.key \notin DOMAIN context
    /\ Len(ctxHistory) = lastCall.seq - 1

(* The call returned to its caller; the other results are exceptions *)
ReturnedNormally(result) == result \in {"imported", "failed to import"}

(* C39: import_from_json of a text that is not JSON returns without        *)
(* raising and leaves the contents and the change history as they were.    *)
C39_InvalidJsonChangesNothing ==
    [][(/\ lastCall'.seq = lastCall.seq + 1
        /\ lastCall'.op = "import_from_json"
        /\ lastCall'.json_str = InvalidText) =>
          /\ ReturnedNormally(lastCall'.result)
          /\ context' = context
          /\ ctxHistory' = ctxHistory
      ]_vars

(* A text that is not JSON was given to a store that holds two keys *)
C39_Witness ==
    /\ lastCall.op = "import_from_json"
    /\ lastCall.json_str = InvalidText
    /\ lastCall.result = "failed to import"
    /\ Cardinality(DOMAIN context) = 2

----------------------------------------------------------------------------
(* The change log under concurrent writers *)

(* The thread that takes this step *)
Stepping(t) == threads'[t] # threads[t]

(* The entry a step appends to the change log *)
Appended == ctxHistory'[Len(ctxHistory')]

(* Thread u has written a key of its update and not yet logged the update *)
UpdateUnlogged(u) ==
    \/ threads[u].pc = "log"
    \/ /\ threads[u].pc = "merge"
       /\ threads[u].todo # DOMAIN threads[u].call.new_data

----------------------------------------------------------------------------
(* get_system_stats *)

(* agent_type.name for the keys of self.agents *)
RegisteredNames(registry) == { t \in DOMAIN registry : registry[t] # NoAgent }

(* MasterControlProgram.get_system_stats *)
GetSystemStats(registry, history, ctx) ==
    [registered_agents |-> Cardinality(RegisteredNames(registry)),
     agent_types |-> RegisteredNames(registry),
     total_events_processed |-> Len(history),
     event_types |-> DOMAIN RoutingRules,
     shared_context_keys |-> Cardinality(DOMAIN ctx)]

(* C33: get_system_stats reports as total the number of events recorded    *)
(* since construction, with the number and identities of the registered    *)
(* workers, the routable kinds and the size of the store.                  *)
C33_StatsCountRecordedEvents ==
    LET stats == GetSystemStats(agents, eventHistory, context)
    IN  /\ stats.total_events_processed = appended.mcp
        /\ stats.registered_agents = Cardinality({ t \in AgentType : agents[t] # NoAgent })
        /\ stats.agent_types = { t \in AgentType : agents[t] # NoAgent }
        /\ stats.event_types = DOMAIN RoutingRules
        /\ stats.shared_context_keys = Cardinality(DOMAIN context)

----------------------------------------------------------------------------
(* shutdown, statement by statement.  The for loop walks the keys of       *)
(* self.agents in insertion order; dict iteration raises RuntimeError when *)
(* the number of keys has changed since the loop began.                    *)

(* hasattr(agent, 'shutdown'): BaseAgent defines the hook, LegacyAgent does *)
(* not derive from it.                                                      *)
HasShutdown(agent) == agent.cls # "LegacyAgent"

(* The keys of self.agents in insertion order: the identities of the       *)
(* register_agent calls, each at its first occurrence.                     *)
RECURSIVE KeyOrder(_)
KeyOrder(log) ==
    IF log = << >> THEN << >>
    ELSE LET before == KeyOrder(SubSeq(log, 1, Len(log) - 1))
             k == log[Len(log)][1]
         IN  IF \E i \in DOMAIN before : before[i] = k THEN before
             ELSE Append(before, k)

ShutdownRegisterInputs ==
    StepsRegisterInputs \cup { <<"LA_ARCHIVISTA", [cls |-> "LaSecretaria", oid |-> 3]>> }

ShutdownFrame ==
    <<delivery, wakeups, lastCall, heap, snapshot, fresh, lock, threads, busCalls,
      eventHistory, eventLog, subscribers, delivered, busTasks, context,
      ctxHistory, clock, constructed, lastConstruct, calls, processLog, appended>>

(* await mcp.shutdown(): up to the for statement *)
ShutdownBegin ==
    /\ shutdownRun.pc = "none"
    /\ shutdownRun' = [pc |-> "loop", used |-> Cardinality(RegisteredNames(agents)),
                       i |-> 1, invoked |-> << >>, error |-> "None"]
    /\ UNCHANGED <<agents, registerLog>>
    /\ UNCHANGED ShutdownFrame

(* for agent_type, agent in self.agents.items(): the next item, and the    *)
(* call of its hook up to the hook's first suspension.                     *)
ShutdownIterate ==
    /\ shutdownRun.pc = "loop"
    /\ LET order == KeyOrder(registerLog)
           i == shutdownRun.i
       IN  shutdownRun' =
              IF Cardinality(RegisteredNames(agents)) # shutdownRun.used
              THEN [shutdownRun EXCEPT !.pc = "raised",
                       !.error = "dictionary changed size during iteration"]
              ELSE IF i > Len(order)
              THEN [shutdownRun EXCEPT !.pc = "returned"]
              ELSE IF HasShutdown(agents[order[i]])
              THEN [shutdownRun EXCEPT !.pc = "awaiting",
                       !.invoked = Append(@, [agent_type |-> order[i],
                                              agent |-> agents[order[i]]])]
              ELSE [shutdownRun EXCEPT !.i = i + 1]
    /\ UNCHANGED <<agents, registerLog>>
    /\ UNCHANGED ShutdownFrame

(* await agent.shutdown() ends: the hook returns, or raises out of shutdown *)
HookReturn(raises) ==
    /\ shutdownRun.pc = "awaiting"
    /\ shutdownRun' =
          IF raises
          THEN [shutdownRun EXCEPT !.pc = "raised", !.error = "hook raised"]
          ELSE [shutdownRun EXCEPT !.pc = "loop", !.i = @ + 1]
    /\ UNCHANGED <<agents, registerLog>>
    /\ UNCHANGED ShutdownFrame

(* shutdown runs from one await to the next without another coroutine or  *)
(* caller running in between; callers register before shutdown or while   *)
(* it is suspended in a hook, not after it has ended.                      *)
CanRegister == shutdownRun.pc \in {"none", "awaiting"}

NextShutdown ==
    \/ \E r \in ShutdownRegisterInputs :
          /\ Len(registerLog) < MaxRegisterCalls
          /\ CanRegister
          /\ RegisterAgent(r[1], r[2])
          /\ registerLog' = Append(registerLog, r)
    \/ ShutdownBegin
    \/ ShutdownIterate
    \/ \E raises \in BOOLEAN : HookReturn(raises)

SpecShutdown == Init /\ [][NextShutdown]_vars

HookCalls(t) ==
    { j \in DOMAIN shutdownRun.invoked : shutdownRun.invoked[j].agent_type = t }

(* C32: shutdown calls only hooks of workers that have one, none twice;    *)
(* when it has ended, the hook of every registered worker that has one has *)
(* been called once.                                                       *)
C32_ShutdownInvokesEveryHook ==
    shutdownRun.pc # "none" =>
        /\ \A j \in DOMAIN shutdownRun.invoked :
              HasShutdown(shutdownRun.invoked[j].agent)
        /\ \A t \in AgentType : Cardinality(HookCalls(t)) <= 1
        /\ shutdownRun.pc \in {"returned", "raised"} =>
              \A t \in AgentType :
                  (agents[t] # NoAgent /\ HasShutdown(agents[t])) =>
                      Cardinality(HookCalls(t)) = 1

----------------------------------------------------------------------------
(* Registration while a dispatch is suspended, under Spec *)

(* The workers registered now under the identities routed for a kind *)
RegisteredFor(event_type) ==
    { agents[t] : t \in { u \in RoutedTypes(event_type) : agents[u] # NoAgent } }

WorkersOf(call) == { call.relevant[i] : i \in DOMAIN call.relevant }

InvokedWorkers(log, c) == { log[k].agent : k \in { n \in DOMAIN log : log[n].call = c } }

(* C35: a dispatch resolves its workers from the registry as it is at its  *)
(* routing step; from then on its workers and the invocations made for it  *)
(* do not change whatever is registered meanwhile, and when it returns     *)
(* success agents_processed counts those workers and the results name no   *)
(* other worker.                                                           *)
C35_WorkerSetFixedAtRouting ==
    [][/\ IF Len(calls') = Len(calls) + 1
          THEN /\ WorkersOf(calls'[Len(calls')]) =
                      RegisteredFor(calls'[Len(calls')].event.type)
               /\ InvokedWorkers(processLog', Len(calls')) =
                      WorkersOf(calls'[Len(calls')])
               /\ SubSeq(processLog', 1, Len(processLog)) = processLog
          ELSE processLog' = processLog
       /\ \A c \in DOMAIN calls :
             /\ calls'[c].relevant = calls[c].relevant
             /\ (calls[c].pc = "gather" /\ calls'[c].outcome.status = "success") =>
                   /\ calls'[c].outcome.agents_processed = Len(calls[c].relevant)
                   /\ \A name \in DOMAIN calls'[c].outcome.results :
                         \E i \in DOMAIN calls[c].relevant :
                             AgentName(calls[c].relevant[i]) = name
      ]_vars

(* A dispatch routed to the one worker registered at the time has returned *)
(* counting one worker, after the second routed identity was registered;   *)
(* the next dispatch of the kind, still waiting, was routed to both.       *)
C35_Witness ==
    \E c1, c2 \in DOMAIN calls :
        /\ c1 < c2
        /\ calls[c1].event.type = calls[c2].event.type
        /\ Succeeded(c1)
        /\ calls[c1].outcome.agents_processed = 1
        /\ calls[c2].pc = "gather"
        /\ Len(calls[c2].relevant) = 2
        /\ \E i \in DOMAIN calls[c2].results : IsPending(calls[c2].results[i])

----------------------------------------------------------------------------
(* Overlapping dispatches of one kind on one event loop *)

(* gather resolves its future when the last awaitable has finished; the   *)
(* loop wakes the callers waiting on resolved futures in that order.       *)
GatherResolved(order, c, results) ==
    IF GatherDone(results) /\ \A k \in DOMAIN order : order[k] # c
    THEN Append(order, c) ELSE order

(* One worker's process(event) finishes, and gather resolves if it was the *)
(* last one of its call                                                    *)
WorkerFinishes(c, i, raises) ==
    /\ c \in DOMAIN calls
    /\ calls[c].pc = "gather"
    /\ i \in DOMAIN calls[c].results
    /\ ~Finished(calls[c], i)
    /\ calls' = [calls EXCEPT ![c].results =
                    StoreResult(@, i,
                        IF raises THEN Raised(calls[c].relevant[i], calls[c].event)
                        ELSE Returned(calls[c].relevant[i], calls[c].event))]
    /\ wakeups' = GatherResolved(wakeups, c, calls'[c].results)
    /\ UNCHANGED <<shutdownRun, delivery, lastCall, heap, snapshot, fresh, lock,
                   threads, busCalls, registerLog, agents, eventHistory, eventLog,
                   subscribers, delivered, busTasks, context, ctxHistory, clock,
                   constructed, lastConstruct, processLog, appended>>

(* Where the call stands in the order the gathers resolved *)
WokenAt(c) == CHOOSE k \in DOMAIN wakeups : wakeups[k] = c

(* The loop resumes callers in the order their futures resolved *)
FirstAwake(c) ==
    /\ \E k \in DOMAIN wakeups : wakeups[k] = c
    /\ \A j \in 1..(WokenAt(c) - 1) : calls[wakeups[j]].pc # "gather"

NextLoop ==
    \/ \E r \in RegisterInputs :
          RegisterAgent(r[1], r[2]) /\ UNCHANGED registerLog
    \/ \E k \in KindInputs :
          /\ constructed = {}
          /\ NewSystemEvent(k, DictPayload(clock - StartTime + 1), DefaultPriority)
    \/ \E e \in constructed : ProcessEvent(e)
    \/ \E c \in DOMAIN calls, i \in 1..2, raises \in BOOLEAN : WorkerFinishes(c, i, raises)
    \/ \E c \in DOMAIN calls : FirstAwake(c) /\ ProcessEventResume(c)

SpecLoop == Init /\ [][NextLoop]_vars

(* The succeeded call of its kind whose workers finished last *)
FinishedLast(c) ==
    /\ Succeeded(c)
    /\ \A d \in DOMAIN calls :
          (Succeeded(d) /\ calls[d].event.type = calls[c].event.type) =>
              WokenAt(d) <= WokenAt(c)

(* C36: once dispatches of one kind have completed, 'last_<kind>' holds the *)
(* whole summary, timestamp and results, of one of them, namely of the one *)
(* whose workers finished last, in whatever order the events arrived.      *)
C36_LastSummaryOfLastFinished ==
    \A c \in DOMAIN calls :
        FinishedLast(c) =>
            /\ LastKey(calls[c].event.type) \in DOMAIN context
            /\ context[LastKey(calls[c].event.type)] = OwnSummary(c)

(* Two dispatches of one kind overlapped and both completed; the workers   *)
(* of the event that arrived first finished last, the two summaries differ *)
(* in timestamp and in results, and the entry is the first event's.        *)
C36_Witness ==
    \E c1, c2 \in DOMAIN calls :
        /\ c1 < c2
        /\ calls[c1].event.type = calls[c2].event.type
        /\ Succeeded(c1) /\ Succeeded(c2)
        /\ WokenAt(c2) < WokenAt(c1)
        /\ OwnSummary(c1).timestamp # OwnSummary(c2).timestamp
        /\ OwnSummary(c1).results # OwnSummary(c2).results
        /\ context[LastKey(calls[c1].event.type)] = OwnSummary(c1)

----------------------------------------------------------------------------
(* publish with synchronous handlers that change the subscriptions of the  *)
(* topic while the loop is running                                         *)

MaxSubscribers == 3

DeliveryHandlers ==
    { [name |-> "on_sync", is_async |-> FALSE, raises |-> FALSE],
      [name |-> "on_sync_failing", is_async |-> FALSE, raises |-> TRUE],
      [name |-> "on_async", is_async |-> TRUE, raises |-> FALSE] }

DeliveryFrame ==
    <<shutdownRun, wakeups, lastCall, heap, snapshot, fresh, lock, threads,
      busCalls, registerLog, agents, eventHistory, context, ctxHistory, clock,
      constructed, lastConstruct, calls, processLog>>

(* publish up to its for statement: the entry is logged and the loop gets  *)
(* the topic's list object itself, not a copy                              *)
PublishBegin(event_type, payload) ==
    /\ delivery.pc = "none"
    /\ eventLog' = LogEvent(eventLog, clock, event_type, payload)
    /\ appended' = [appended EXCEPT !.bus = @ + 1]
    /\ delivery' = [pc |-> "loop", event_type |-> event_type, payload |-> payload,
                    i |-> 0,
                    at_call |-> SubscribersOf(subscribers, event_type),
                    invoked |-> << >>]
    /\ UNCHANGED <<subscribers, delivered, busTasks>>
    /\ UNCHANGED DeliveryFrame

(* One turn of the for statement: the list iterator yields the item at its *)
(* index in the list as it is now, or ends the loop when the index has     *)
(* reached the list's length; a plain subscriber is called, a coroutine    *)
(* function gets a task.                                                   *)
PublishNext ==
    /\ delivery.pc = "loop"
    /\ LET lst == SubscribersOf(subscribers, delivery.event_type)
       IN  IF delivery.i >= Len(lst)
           THEN /\ delivery' = [delivery EXCEPT !.pc = "returned"]
                /\ UNCHANGED <<delivered, busTasks>>
           ELSE LET subscriber == lst[delivery.i + 1]
                IN  /\ delivery' = [delivery EXCEPT
                            !.i = @ + 1,
                            !.invoked = Append(@, subscriber),
                            !.pc = IF subscriber.is_async THEN "loop" ELSE "calling"]
                    /\ IF subscriber.is_async
                       THEN /\ busTasks' = Append(busTasks,
                                   [callback |-> subscriber,
                                    payload |-> delivery.payload, state |-> "pending"])
                            /\ delivered' = delivered
                       ELSE /\ delivered' = Append(delivered,
                                   [callback |-> subscriber,
                                    payload |-> delivery.payload])
                            /\ busTasks' = busTasks
    /\ UNCHANGED <<eventLog, appended, subscribers>>
    /\ UNCHANGED DeliveryFrame

(* The plain subscriber being called returns or raises; the exception is   *)
(* caught inside the loop                                                  *)
SubscriberReturns ==
    /\ delivery.pc = "calling"
    /\ delivery' = [delivery EXCEPT !.pc = "loop"]
    /\ UNCHANGED <<eventLog, appended, subscribers, delivered, busTasks>>
    /\ UNCHANGED DeliveryFrame

(* The handlers are subscribed once each before publish is called; a plain *)
(* subscriber, while it is being called, subscribes and unsubscribes       *)
(* handlers of the topic, itself included.                                 *)
NextDelivery ==
    \/ \E h \in DeliveryHandlers :
          /\ delivery.pc = "none"
          /\ Occurrences(SubscribersOf(subscribers, BusTopic), h) = 0
          /\ Subscribe(BusTopic, h) /\ UNCHANGED lastCall
    \/ PublishBegin(BusTopic, DictObject(1))
    \/ PublishNext
    \/ \E h \in DeliveryHandlers :
          /\ delivery.pc = "calling"
          /\ Len(SubscribersOf(subscribers, BusTopic)) < MaxSubscribers
          /\ Subscribe(BusTopic, h) /\ UNCHANGED lastCall
    \/ \E h \in DeliveryHandlers :
          /\ delivery.pc = "calling"
          /\ Unsubscribe(BusTopic, h) /\ UNCHANGED lastCall
    \/ SubscriberReturns

SpecDelivery == Init /\ [][NextDelivery]_vars

(* C34: when publish has returned, every handler that was in the topic's   *)
(* list when publish was called has received the payload once for each of  *)
(* its subscriptions, and no other handler has received it twice, whatever *)
(* the synchronous handlers subscribed or unsubscribed meanwhile.          *)
C34_PublishDeliversOnceToCallTimeHandlers ==
    delivery.pc = "returned" =>
        \A h \in DeliveryHandlers :
            IF Occurrences(delivery.at_call, h) > 0
            THEN Occurrences(delivery.invoked, h) = Occurrences(delivery.at_call, h)
            ELSE Occurrences(delivery.invoked, h) <= 1

----------------------------------------------------------------------------
(* Every method of the store under threads: the methods that call another  *)
(* method of the store, and a call that raises inside its with block       *)

LockNamespace == <<"ns">>

(* set_namespaced, get_namespaced and import_from_json of an object, of a  *)
(* text that is not JSON and of [1]                                        *)
OuterCalls ==
    { [op |-> "set_namespaced", namespace |-> LockNamespace, key |-> ThreadKeyA,
       value |-> PyInt(3)],
      [op |-> "get_namespaced", namespace |-> LockNamespace, key |-> ThreadKeyA] }
    \cup { [op |-> "import_from_json", json_str |-> j] : j \in JsonTexts }

(* The calls that take the lock themselves *)
DirectCalls == { c \in ThreadCalls : c.op # "get_system_stats" }

(* A thread enters set_namespaced, get_namespaced or import_from_json *)
OuterCall(t, c) ==
    /\ threads[t].pc = "idle"
    /\ threads' = [threads EXCEPT ![t] =
          [pc |-> "outer", call |-> c, todo |-> {}, old_keys |-> {}]]
    /\ UNCHANGED <<context, ctxHistory, lock>>
    /\ UNCHANGED ThreadFrame

(* The statements of the outer method up to its call of set, get or update, *)
(* with the lock left as `held`: the key is built, or the text is parsed   *)
(* and a JSONDecodeError is caught and the method returns.                 *)
EnterInner(t, held) ==
    /\ threads[t].pc = "outer"
    /\ LET c == threads[t].call
           loaded == JsonLoads(c.json_str)
       IN  threads' = [threads EXCEPT ![t] =
              IF c.op = "set_namespaced"
              THEN [@ EXCEPT !.pc = "acquire",
                             !.call = [op |-> "set", key |-> FullKey(c.namespace, c.key),
                                       value |-> c.value, outer |-> c.op]]
              ELSE IF c.op = "get_namespaced"
              THEN [@ EXCEPT !.pc = "acquire",
                             !.call = [op |-> "get", key |-> FullKey(c.namespace, c.key),
                                       outer |-> c.op]]
              ELSE IF loaded.raised # "None"
              THEN Idle
              ELSE IF loaded.isdict
              THEN [@ EXCEPT !.pc = "acquire",
                             !.call = [op |-> "update", new_data |-> loaded.data,
                                       outer |-> c.op]]
              ELSE [@ EXCEPT !.pc = "acquire",
                             !.call = [op |-> "update", new_data |-> EmptyDict,
                                       not_dict |-> loaded.data, outer |-> c.op]]]
    /\ lock' = held
    /\ UNCHANGED <<lastCall, context, ctxHistory>>
    /\ UNCHANGED ThreadFrame

(* Variant: the outer method calls the inner one inside `with self._lock` *)
OuterUnderLock(t) == CanAcquire(lock) /\ EnterInner(t, t)

(* set_namespaced, get_namespaced, import_from_json: no lock is taken *)
Outer(t) == EnterInner(t, lock)

(* The argument of update is a mapping *)
IsMapping(c) == "not_dict" \notin DOMAIN c

(* update: self._context.update(new_data) raises TypeError on a list of    *)
(* numbers; the exception leaves the with block                            *)
UpdateRaises(t) ==
    /\ threads[t].pc = "merge"
    /\ ~IsMapping(threads[t].call)
    /\ threads' = [threads EXCEPT ![t].pc = "release"]
    /\ UNCHANGED <<lastCall, context, ctxHistory, lock>>
    /\ UNCHANGED ThreadFrame

(* update of a mapping writes its keys *)
UpdateWrites(t) ==
    /\ threads[t].pc = "merge"
    /\ IsMapping(threads[t].call)
    /\ UpdateWriteKey(t)

NextLocking ==
    \/ \E t \in Threads, c \in DirectCalls : ThreadCall(t, c) /\ Started(c)
    \/ \E t \in Threads, c \in OuterCalls : OuterCall(t, c) /\ Started(c)
    \/ \E t \in Threads : Outer(t)
    \/ \E t \in Threads : Acquire(t)
    \/ \E t \in Threads : UpdateOldKeys(t)
    \/ \E t \in Threads : UpdateWrites(t)
    \/ \E t \in Threads : UpdateRaises(t)
    \/ \E t \in Threads : UpdateLog(t)
    \/ \E t \in Threads : Body(t)
    \/ \E t \in Threads : Release(t)

SpecLocking == Init /\ [][NextLocking]_vars

(* A thread that is inside a call is scheduled again; callers need not     *)
(* make further calls.                                                     *)
ThreadStep(t) ==
    \/ Outer(t) \/ Acquire(t) \/ UpdateOldKeys(t)
    \/ UpdateWrites(t) \/ UpdateRaises(t) \/ UpdateLog(t) \/ Body(t) \/ Release(t)

SpecLockingFair == SpecLocking /\ \A t \in Threads : WF_vars(ThreadStep(t))

(* The thread is about to take the lock or is outside every with block *)
OutsideBlock(t) == threads[t].pc \in {"idle", "outer", "acquire"}

(* C37: a thread that is about to acquire the lock, or is in an outer      *)
(* method, does not hold it, and a thread that holds it is inside a block; *)
(* every call a thread has entered returns, normally or by raising, with   *)
(* the lock released by that thread, and a held lock becomes free.         *)
C37_NoSelfDeadlock ==
    /\ [](\A t \in Threads : OutsideBlock(t) <=> lock # t)
    /\ \A t \in Threads :
          (threads[t].pc # "idle") ~> (threads[t].pc = "idle" /\ lock # t)
    /\ (lock # "free") ~> (lock = "free")

(* A thread is leaving the block of an update that raised, still holding   *)
(* the lock, while the other thread waits for the lock inside the set      *)
(* called by set_namespaced.                                               *)
C37_Witness ==
    \E t \in Threads : \E u \in Threads \ {t} :
        /\ threads[t].pc = "release"
        /\ ~IsMapping(threads[t].call)
        /\ lock = t
        /\ threads[u].pc = "acquire"
        /\ threads[u].call.op = "set"
        /\ threads[u].call.key = FullKey(LockNamespace, ThreadKeyA)

====
